---- MODULE Spec2Model ----
(***************************************************************************)
(* PyRedactor: the redaction-overlay model (rectangle, page, document),    *)
(* the redaction service, the snapshot undo stack of the document          *)
(* management service, and the editing handlers of the main window and of  *)
(* the graphics items that call them.                                      *)
(*                                                                         *)
(* Python lists are sequences (1-based here); document.pages keeps the     *)
(* source's 0-based page indices as a function on 0..NumPages-1.           *)
(* Coordinates are integers.  uuid4() ids are fresh naturals drawn from    *)
(* the counter next_uuid; a PIL image is its pixel content (a fresh        *)
(* natural per image produced by the rasterizer, rotate or crop) and its   *)
(* size.                                                                   *)
(***************************************************************************)
EXTENDS Integers, Sequences, FiniteSets, TLC

\* ------------------------------------------------------------------ bounds
NumPages == 2
MaxSteps == 3
MaxPushes == 15
MaxDraws == 3
MaxEngineSteps == 4
MaxDocPages == 2
MaxDocSteps == 4
MaxWorkSteps == 5
MaxWorkRects == 2
MaxExportSteps == 3
MaxProgressPages == 21
MaxProgressErrors == 1
MaxLoadPages == 2
MaxLoadSteps == 2
MaxPersistSteps == 4
MaxCropSteps == 2
MaxSettingsSteps == 4
MaxAliasSteps == 5
MaxSceneSteps == 4
MaxIdSteps == 5
MaxBatchSteps == 3

\* ------------------------------------------------------- program constants
UndoLimit == 10
MinHandleSize == 10
MinDrawSize == 5
A4Short == 2480
A4Long == 3508
DefaultHistoryLength == 30
WorkFileHistoryDefault == 30

\* ------------------------------------------------------------ input sets
Colors == {"black", "red"}
Deltas == {<<5, 5>>, <<-5, -5>>}
Sizes == {<<20, 20>>, <<-30, 5>>}
Angles == {90, -90}
ImageSize0 == <<10, 14>>
CropInputs == {<<0, 0, 5, 7>>, <<-1, 2, 20, 8>>, <<4, 20, 3, 3>>}
AddInputs == {<<<<10, 20>>, <<50, 10>>, "black">>, <<<<50, 10>>, <<10, 20>>, "red">>,
              <<<<10, 20>>, <<10, 20>>, "black">>}
HistoryLengths == {5, DefaultHistoryLength}
PageIdx == 0 .. (NumPages - 1)
\* the id field of an operation that takes no rectangle id
NoId == "none"

Min(a, b) == IF a <= b THEN a ELSE b
Max(a, b) == IF a >= b THEN a ELSE b
Abs(a) == IF a >= 0 THEN a ELSE -a

\* tagged return values (Python returns bool, int, None or an object)
RetBool(b) == [kind |-> "bool", val |-> b]
RetInt(n) == [kind |-> "int", val |-> n]
RetNone == [kind |-> "none"]
RetRect(r) == [kind |-> "rect", val |-> r]
RetDoc(d) == [kind |-> "document", val |-> d]

\* ------------------------------------------------------- RectangleEntity
\* the dataclass constructor followed by __post_init__
\* a constructor that stores the two points as given
RectangleEntity_unordered(id, start_point, end_point, color) ==
  [id |-> id, start_point |-> start_point, end_point |-> end_point, color |-> color]

RectangleEntity(id, start_point, end_point, color) ==
  [id |-> id,
   start_point |-> <<Min(start_point[1], end_point[1]), Min(start_point[2], end_point[2])>>,
   end_point |-> <<Max(start_point[1], end_point[1]), Max(start_point[2], end_point[2])>>,
   color |-> color]

move(r, delta_x, delta_y) ==
  RectangleEntity(r.id,
                  <<r.start_point[1] + delta_x, r.start_point[2] + delta_y>>,
                  <<r.end_point[1] + delta_x, r.end_point[2] + delta_y>>,
                  r.color)

resize(r, new_width, new_height) ==
  RectangleEntity(r.id, r.start_point,
                  <<r.start_point[1] + new_width, r.start_point[2] + new_height>>,
                  r.color)

change_color(r, new_color) ==
  RectangleEntity(r.id, r.start_point, r.end_point, new_color)

\* ------------------------------------------------------------ PageEntity
\* each operation maps the page's rectangle list to the new list and result
IndexOf(rects, id) ==
  IF \E i \in 1 .. Len(rects) : rects[i].id = id
  THEN CHOOSE i \in 1 .. Len(rects) :
         /\ rects[i].id = id
         /\ \A j \in 1 .. (i - 1) : rects[j].id # id
  ELSE 0

DeleteAt(rects, i) == SubSeq(rects, 1, i - 1) \o SubSeq(rects, i + 1, Len(rects))

add_rectangle(rects, r) == [rects |-> Append(rects, r), ret |-> TRUE]

\* a removal that drops the last entry of the list when the id is present
remove_rectangle_drops_last(rects, id) ==
  IF IndexOf(rects, id) # 0
  THEN [rects |-> SubSeq(rects, 1, Len(rects) - 1), ret |-> TRUE]
  ELSE [rects |-> rects, ret |-> FALSE]

remove_rectangle(rects, id) ==
  IF IndexOf(rects, id) # 0
  THEN [rects |-> DeleteAt(rects, IndexOf(rects, id)), ret |-> TRUE]
  ELSE [rects |-> rects, ret |-> FALSE]

HasRectangle(rects, id) == IndexOf(rects, id) # 0
get_rectangle(rects, id) == rects[IndexOf(rects, id)]

clear_rectangles(rects) == [rects |-> <<>>, ret |-> Len(rects)]

undo_last_rectangle(rects) ==
  IF Len(rects) > 0
  THEN [rects |-> SubSeq(rects, 1, Len(rects) - 1), ret |-> TRUE]
  ELSE [rects |-> rects, ret |-> FALSE]

\* ------------------------------------------------------ RedactionService
add_redaction_rectangle(rects, uuid, start_point, end_point, color) ==
  LET r == add_rectangle(rects, RectangleEntity(uuid, start_point, end_point, color))
  IN [rects |-> r.rects, ret |-> RetBool(r.ret)]

\* a replacement that adds the new rectangle and leaves the old one in place
ReplaceById_keeps_old(rects, id, new) == add_rectangle(rects, new)

ReplaceById(rects, id, new) ==
  add_rectangle(remove_rectangle(rects, id).rects, new)

\* a move that reports success for an id that is not on the page
move_redaction_rectangle_always_true(rects, id, delta_x, delta_y) ==
  IF HasRectangle(rects, id)
  THEN ReplaceById(rects, id, move(get_rectangle(rects, id), delta_x, delta_y))
  ELSE [rects |-> rects, ret |-> TRUE]

move_redaction_rectangle(rects, id, delta_x, delta_y) ==
  IF HasRectangle(rects, id)
  THEN ReplaceById(rects, id, move(get_rectangle(rects, id), delta_x, delta_y))
  ELSE [rects |-> rects, ret |-> FALSE]

resize_redaction_rectangle(rects, id, new_width, new_height) ==
  IF HasRectangle(rects, id)
  THEN ReplaceById(rects, id, resize(get_rectangle(rects, id), new_width, new_height))
  ELSE [rects |-> rects, ret |-> FALSE]

change_redaction_color(rects, id, new_color) ==
  IF HasRectangle(rects, id)
  THEN ReplaceById(rects, id, change_color(get_rectangle(rects, id), new_color))
  ELSE [rects |-> rects, ret |-> FALSE]

\* ------------------------------------------------------------------ state
\* --------------------------------------------------------- DocumentEntity
\* document.pages is a function on 0 .. page_count - 1
page_count(pgs) == Cardinality(DOMAIN pgs)

add_page(pgs, page) ==
  [pages |-> [p \in 0 .. page_count(pgs) |-> IF p < page_count(pgs) THEN pgs[p] ELSE page],
   ret |-> TRUE]

\* a removal that leaves current_page_index as it was
remove_page_keeps_index(pgs, cur, page_index) ==
  IF 0 <= page_index /\ page_index < page_count(pgs)
  THEN [pages |-> [p \in 0 .. (page_count(pgs) - 2) |->
                     IF p < page_index THEN pgs[p] ELSE pgs[p + 1]],
        current_page_index |-> cur,
        ret |-> TRUE]
  ELSE [pages |-> pgs, current_page_index |-> cur, ret |-> FALSE]

remove_page(pgs, cur, page_index) ==
  IF 0 <= page_index /\ page_index < page_count(pgs)
  THEN LET rest == [p \in 0 .. (page_count(pgs) - 2) |->
                      IF p < page_index THEN pgs[p] ELSE pgs[p + 1]]
       IN [pages |-> rest,
           current_page_index |-> IF cur >= page_count(rest)
                                  THEN Max(0, page_count(rest) - 1) ELSE cur,
           ret |-> TRUE]
  ELSE [pages |-> pgs, current_page_index |-> cur, ret |-> FALSE]

set_current_page(pgs, cur, page_index) ==
  IF 0 <= page_index /\ page_index < page_count(pgs)
  THEN [current_page_index |-> page_index, ret |-> TRUE]
  ELSE [current_page_index |-> cur, ret |-> FALSE]

next_page(pgs, cur) ==
  IF cur < page_count(pgs) - 1
  THEN [current_page_index |-> cur + 1, ret |-> TRUE]
  ELSE [current_page_index |-> cur, ret |-> FALSE]

previous_page(cur) ==
  IF cur > 0
  THEN [current_page_index |-> cur - 1, ret |-> TRUE]
  ELSE [current_page_index |-> cur, ret |-> FALSE]

VARIABLES
  pages,               \* document.pages: page index -> [image, rectangles]
  current_page_index,  \* document.current_page_index
  undo_stack,          \* DocumentManagementService.undo_stack
  history_length,      \* SettingsEntity.history_length as loaded at startup
  fill_color,          \* MainWindow.fill_color
  scene,               \* the ResizableRectItems of the QGraphicsScene, in z-order
  next_uuid,           \* the next uuid4() value
  next_image,          \* the next pixel content a rasterizer/rotate/crop produces
  push_log,            \* the snapshots push_undo_state took since the last
                       \* load, in call order
  steps,               \* operations performed so far
  workdir,             \* the work-file directory: its files, oldest first
  export,              \* the ExportWorker of the running or last export
  loader,              \* the DocumentLoaderWorker of the running or last load
  app_settings,        \* settings.json and the SettingsEntity of the main window
  heap,                \* the objects behind the pages and the snapshots, by
                       \* reference, where aliasing is examined
  batch,               \* the BatchOperationWorker of the running or last batch
  last                 \* record of the last operation: its name, arguments,
                       \* result, and the pages and stack it started from

vars == <<pages, current_page_index, undo_stack, history_length, fill_color,
          scene, next_uuid, next_image, push_log, steps, workdir, export,
          loader, app_settings, heap, batch, last>>

NoImage == [id |-> 0, size |-> <<0, 0>>]
HasImage(page) == page.image # NoImage
\* the pages of a DocumentEntity just constructed
NoPages == [p \in {} |-> NoImage]

\* ----------------------------------------- DocumentManagementService (undo)
Snapshot(pgs, page_index) ==
  [page_index |-> page_index,
   image |-> pgs[page_index].image,
   rectangles |-> pgs[page_index].rectangles]

\* a limit that discards the newest snapshot instead of the oldest
LimitStack_drops_newest(stack) ==
  IF Len(stack) > UndoLimit THEN SubSeq(stack, 1, UndoLimit) ELSE stack

LimitStack(stack) == IF Len(stack) > UndoLimit THEN Tail(stack) ELSE stack

push_undo_state(stack, pgs, page_index) ==
  IF page_index \in DOMAIN pgs
  THEN LimitStack(Append(stack, Snapshot(pgs, page_index)))
  ELSE stack

Top(stack) == stack[Len(stack)]
Pop(stack) == SubSeq(stack, 1, Len(stack) - 1)

\* an undo that, finding the stack empty, clears page 0 and reports it restored
undo_empty_clears(stack, pgs) ==
  IF Len(stack) = 0
  THEN [stack |-> stack,
        pages |-> [pgs EXCEPT ![0].rectangles = <<>>],
        ret |-> RetInt(0)]
  ELSE LET state == stack[Len(stack)]
       IN IF state.page_index \in DOMAIN pgs
          THEN [stack |-> SubSeq(stack, 1, Len(stack) - 1),
                pages |-> [pgs EXCEPT ![state.page_index] =
                             [image |-> state.image, rectangles |-> state.rectangles]],
                ret |-> RetInt(state.page_index)]
          ELSE [stack |-> SubSeq(stack, 1, Len(stack) - 1), pages |-> pgs, ret |-> RetNone]

\* an undo that restores the rectangles but not the image
undo_keeps_image(stack, pgs) ==
  IF Len(stack) = 0
  THEN [stack |-> stack, pages |-> pgs, ret |-> RetNone]
  ELSE LET state == stack[Len(stack)]
       IN IF state.page_index \in DOMAIN pgs
          THEN [stack |-> SubSeq(stack, 1, Len(stack) - 1),
                pages |-> [pgs EXCEPT ![state.page_index].rectangles = state.rectangles],
                ret |-> RetInt(state.page_index)]
          ELSE [stack |-> SubSeq(stack, 1, Len(stack) - 1), pages |-> pgs, ret |-> RetNone]

\* undo(): the new stack, the new pages and the returned page index
undo(stack, pgs) ==
  IF Len(stack) = 0
  THEN [stack |-> stack, pages |-> pgs, ret |-> RetNone]
  ELSE LET state == Top(stack)
       IN IF state.page_index \in DOMAIN pgs
          THEN [stack |-> Pop(stack),
                pages |-> [pgs EXCEPT ![state.page_index] =
                             [image |-> state.image, rectangles |-> state.rectangles]],
                ret |-> RetInt(state.page_index)]
          ELSE [stack |-> Pop(stack), pages |-> pgs, ret |-> RetNone]

\* image.rotate(angle, expand=True): quarter turns swap width and height
RotatedSize(size, angle) ==
  IF angle \in {90, -90, 270, -270} THEN <<size[2], size[1]>> ELSE size

\* a rotation that leaves the page's rectangles in place
rotate_page_keeps_rectangles(stack, pgs, page_index, angle, new_id) ==
  IF page_index \in DOMAIN pgs
  THEN [stack |-> push_undo_state(stack, pgs, page_index),
        pages |-> [pgs EXCEPT ![page_index].image =
                     [id |-> new_id, size |-> RotatedSize(pgs[page_index].image.size, angle)]],
        ret |-> TRUE]
  ELSE [stack |-> stack, pages |-> pgs, ret |-> FALSE]

rotate_page(stack, pgs, page_index, angle, new_id) ==
  IF page_index \in DOMAIN pgs
  THEN LET pushed == push_undo_state(stack, pgs, page_index)
       IN IF HasImage(pgs[page_index])
          THEN [stack |-> pushed,
                pages |-> [pgs EXCEPT ![page_index] =
                             [image |-> [id |-> new_id,
                                         size |-> RotatedSize(pgs[page_index].image.size, angle)],
                              rectangles |-> <<>>]],
                ret |-> TRUE]
          ELSE [stack |-> pushed, pages |-> pgs, ret |-> FALSE]
  ELSE [stack |-> stack, pages |-> pgs, ret |-> FALSE]

\* abs(ratio - a4) < 0.05 * a4 with ratio = width/height and a4 = num/den,
\* cross-multiplied by 20 * height * den
RatioMatches(width, height, num, den) ==
  20 * Abs(width * den - num * height) < num * height

\* an upscaling that accepts ratios within 10% of the A4 ratios
CropTargetSize_wide(width, height) ==
  IF 10 * Abs(width * A4Long - A4Short * height) < A4Short * height THEN <<A4Short, A4Long>>
  ELSE IF 10 * Abs(width * A4Short - A4Long * height) < A4Long * height THEN <<A4Long, A4Short>>
  ELSE <<width, height>>

CropTargetSize(width, height) ==
  IF RatioMatches(width, height, A4Short, A4Long) THEN <<A4Short, A4Long>>
  ELSE IF RatioMatches(width, height, A4Long, A4Short) THEN <<A4Long, A4Short>>
  ELSE <<width, height>>

\* the region handed to image.crop: x and y raised to 0, width and height
\* cut to what is left of the image from there
CropBox(size, x, y, width, height) ==
  <<Max(0, x), Max(0, y), Min(width, size[1] - Max(0, x)), Min(height, size[2] - Max(0, y))>>

\* a crop that clears the page's rectangles before it validates the region
crop_page_clears_first(stack, pgs, page_index, x, y, width, height, raises, new_id) ==
  IF page_index \in DOMAIN pgs
  THEN LET pushed == push_undo_state(stack, pgs, page_index)
           img == pgs[page_index].image
           cw == Min(width, img.size[1] - Max(0, x))
           ch == Min(height, img.size[2] - Max(0, y))
       IN IF HasImage(pgs[page_index]) /\ cw > 0 /\ ch > 0 /\ ~raises
          THEN [stack |-> pushed,
                pages |-> [pgs EXCEPT ![page_index] =
                             [image |-> [id |-> new_id, size |-> CropTargetSize(cw, ch)],
                              rectangles |-> <<>>]],
                ret |-> TRUE, kept |-> TRUE]
          ELSE [stack |-> pushed,
                pages |-> [pgs EXCEPT ![page_index].rectangles = <<>>],
                ret |-> FALSE, kept |-> ~raises]
  ELSE [stack |-> stack, pages |-> pgs, ret |-> FALSE, kept |-> FALSE]

\* crop_page; raises says whether PIL's crop/resize raises inside the try,
\* kept whether the snapshot pushed at entry is still on the stack at return
crop_page(stack, pgs, page_index, x, y, width, height, raises, new_id) ==
  IF page_index \in DOMAIN pgs
  THEN LET pushed == push_undo_state(stack, pgs, page_index)
           img == pgs[page_index].image
           box == CropBox(img.size, x, y, width, height)
           cw == box[3]
           ch == box[4]
       IN IF HasImage(pgs[page_index]) /\ cw > 0 /\ ch > 0
          THEN IF raises
               THEN [stack |-> IF Len(pushed) > 0 THEN Pop(pushed) ELSE pushed,
                     pages |-> pgs, ret |-> FALSE, kept |-> FALSE]
               ELSE [stack |-> pushed,
                     pages |-> [pgs EXCEPT ![page_index] =
                                  [image |-> [id |-> new_id, size |-> CropTargetSize(cw, ch)],
                                   rectangles |-> <<>>]],
                     ret |-> TRUE, kept |-> TRUE]
          ELSE [stack |-> pushed, pages |-> pgs, ret |-> FALSE, kept |-> TRUE]
  ELSE [stack |-> stack, pages |-> pgs, ret |-> FALSE, kept |-> FALSE]

\* load_document: the rasterizer yields one page per source page, no rectangles
LoadedPages(first_image) ==
  [p \in PageIdx |-> [image |-> [id |-> first_image + p, size |-> ImageSize0],
                      rectangles |-> <<>>]]

\* a load that keeps the snapshots of the document it replaces
load_document_keeps_stack(stack, pgs, loaded) ==
  [pages |-> loaded, stack |-> stack, ret |-> RetDoc(loaded)]

\* DocumentManagementService.load_document; loaded is what the repository
\* returned
load_document(stack, pgs, loaded) ==
  [pages |-> loaded, stack |-> <<>>, ret |-> RetDoc(loaded)]

\* ----------------------------------------------------------- scene items
\* a ResizableRectItem: its entity id, pos(), rect() = <<x, y, w, h>> and the
\* color of its brush
ItemFor(r) ==
  [entity_id |-> r.id,
   pos |-> r.start_point,
   rect |-> <<0, 0, r.end_point[1] - r.start_point[1], r.end_point[2] - r.start_point[2]>>,
   brush |-> r.color]

RECURSIVE ItemsFor(_)
ItemsFor(rects) ==
  IF rects = <<>> THEN <<>>
  ELSE <<ItemFor(Head(rects))>> \o ItemsFor(Tail(rects))

\* show_page's scene rebuild for the page it makes current
SceneOf(pgs, page_num) ==
  IF HasImage(pgs[page_num]) THEN ItemsFor(pgs[page_num].rectangles) ELSE <<>>

\* QRectF corner setters and the handle's minimum size (HandleItem.mouseMoveEvent)
DragCorner(rect, position, delta) ==
  LET x == rect[1]
      y == rect[2]
      w == rect[3]
      h == rect[4]
      dx == delta[1]
      dy == delta[2]
      moved == CASE position = "top_left" -> <<x + dx, y + dy, w - dx, h - dy>>
                 [] position = "top_right" -> <<x, y + dy, w + dx, h - dy>>
                 [] position = "bottom_left" -> <<x + dx, y, w - dx, h + dy>>
                 [] OTHER -> <<x, y, w + dx, h + dy>>
  IN <<moved[1], moved[2],
       IF moved[3] < MinHandleSize THEN MinHandleSize ELSE moved[3],
       IF moved[4] < MinHandleSize THEN MinHandleSize ELSE moved[4]>>

\* ResizableRectItem.update_data_model_from_rect: writes the item's geometry
\* into the entity of the current page, in place
update_data_model_from_rect(rects, item) ==
  IF HasRectangle(rects, item.entity_id)
  THEN [rects EXCEPT ![IndexOf(rects, item.entity_id)] =
          [@ EXCEPT !.start_point = <<item.rect[1] + item.pos[1], item.rect[2] + item.pos[2]>>,
                    !.end_point = <<item.rect[1] + item.rect[3] + item.pos[1],
                                    item.rect[2] + item.rect[4] + item.pos[2]>>]]
  ELSE rects

\* MainWindow.change_marker_color: writes the color into the entities of the
\* selected items, in place
RECURSIVE SetColors(_, _, _)
SetColors(rects, ids, color) ==
  IF ids = {} THEN rects
  ELSE LET id == CHOOSE i \in ids : TRUE
           rest == SetColors(rects, ids \ {id}, color)
       IN IF HasRectangle(rest, id)
          THEN [rest EXCEPT ![IndexOf(rest, id)] = [@ EXCEPT !.color = color]]
          ELSE rest

\* MainWindow.delete_selected_marker's loop over the selected items
RECURSIVE RemoveAll(_, _)
RemoveAll(rects, ids) ==
  IF ids = {} THEN rects
  ELSE LET id == CHOOSE i \in ids : TRUE
       IN RemoveAll(remove_rectangle(rects, id).rects, ids \ {id})

SelectSeq2(seq, keep) ==
  LET F[i \in 0 .. Len(seq)] ==
        IF i = 0 THEN <<>>
        ELSE IF i \in keep THEN Append(F[i - 1], seq[i]) ELSE F[i - 1]
  IN F[Len(seq)]

EntityIds(items, sel) == {items[i].entity_id : i \in sel}

\* ---------------------------------------------------------------- actions
\* ids a caller may pass for page p: those on the page, the id issued last
\* (on any page, or removed since) and one that was never issued
IdsOn(p) == {pages[p].rectangles[i].id : i \in 1 .. Len(pages[p].rectangles)}
CandidateIds(p) == IdsOn(p) \cup {next_uuid - 1, next_uuid}
Corners == {"top_left", "top_right", "bottom_left", "bottom_right"}
DragDeltas == {<<5, 5>>, <<-60, -60>>}
DrawRects == {<<10, 10, 50, 20>>, <<60, 60, 62, 90>>}

CanStep == steps < MaxSteps

RecordLast(op, page, id, ret, pushed, args) ==
  /\ steps' = steps + 1
  /\ push_log' = IF op = "load" THEN <<>>
                 ELSE IF pushed THEN Append(push_log, Snapshot(pages, page))
                 ELSE push_log
  /\ last' = [op |-> op, page |-> page, id |-> id, ret |-> ret, pushed |-> pushed,
              args |-> args, pre |-> pages, preStack |-> undo_stack,
              preIndex |-> current_page_index]

\* an operation of the editor: it touches neither the work files nor an export
Record(op, page, id, ret, pushed) ==
  /\ RecordLast(op, page, id, ret, pushed, <<>>)
  /\ UNCHANGED <<workdir, export, loader, app_settings, heap, batch>>

SetRects(p, rects) == pages' = [pages EXCEPT ![p].rectangles = rects]

\* RedactionService, called on any page of the document
AddRedactionRectangle(p, s, e, c) ==
  LET r == add_redaction_rectangle(pages[p].rectangles, next_uuid, s, e, c)
  IN /\ SetRects(p, r.rects)
     /\ next_uuid' = next_uuid + 1
     /\ Record("add", p, next_uuid, r.ret, FALSE)
     /\ UNCHANGED <<current_page_index, undo_stack, history_length, fill_color,
                    scene, next_image>>

RemoveRedactionRectangle(p, id) ==
  LET r == remove_rectangle(pages[p].rectangles, id)
  IN /\ SetRects(p, r.rects)
     /\ Record("remove", p, id, RetBool(r.ret), FALSE)
     /\ UNCHANGED <<current_page_index, undo_stack, history_length, fill_color,
                    scene, next_uuid, next_image>>

ClearAllRedactions(p) ==
  LET r == clear_rectangles(pages[p].rectangles)
  IN /\ SetRects(p, r.rects)
     /\ Record("clear", p, NoId, RetInt(r.ret), FALSE)
     /\ UNCHANGED <<current_page_index, undo_stack, history_length, fill_color,
                    scene, next_uuid, next_image>>

MoveRedactionRectangle(p, id, d) ==
  LET r == move_redaction_rectangle(pages[p].rectangles, id, d[1], d[2])
  IN /\ SetRects(p, r.rects)
     /\ Record("move", p, id, RetBool(r.ret), FALSE)
     /\ UNCHANGED <<current_page_index, undo_stack, history_length, fill_color,
                    scene, next_uuid, next_image>>

ResizeRedactionRectangle(p, id, sz) ==
  LET r == resize_redaction_rectangle(pages[p].rectangles, id, sz[1], sz[2])
  IN /\ SetRects(p, r.rects)
     /\ RecordLast("resize", p, id, RetBool(r.ret), FALSE, sz)
     /\ UNCHANGED <<workdir, export, loader, app_settings, heap, batch>>
     /\ UNCHANGED <<current_page_index, undo_stack, history_length, fill_color,
                    scene, next_uuid, next_image>>

ChangeRedactionColor(p, id, c) ==
  LET r == change_redaction_color(pages[p].rectangles, id, c)
  IN /\ SetRects(p, r.rects)
     /\ Record("recolor", p, id, RetBool(r.ret), FALSE)
     /\ UNCHANGED <<current_page_index, undo_stack, history_length, fill_color,
                    scene, next_uuid, next_image>>

UndoLastRedaction(p) ==
  LET r == undo_last_rectangle(pages[p].rectangles)
  IN /\ SetRects(p, r.rects)
     /\ Record("undo_last", p, NoId, RetBool(r.ret), FALSE)
     /\ UNCHANGED <<current_page_index, undo_stack, history_length, fill_color,
                    scene, next_uuid, next_image>>

\* DocumentManagementService, called with any page index
RotatePage(p, angle) ==
  LET r == rotate_page(undo_stack, pages, p, angle, next_image)
  IN /\ pages' = r.pages
     /\ undo_stack' = r.stack
     /\ next_image' = next_image + 1
     /\ Record("rotate", p, NoId, RetBool(r.ret), p \in PageIdx)
     /\ UNCHANGED <<current_page_index, history_length, fill_color, scene, next_uuid>>

CropPage(p, c, raises) ==
  LET r == crop_page(undo_stack, pages, p, c[1], c[2], c[3], c[4], raises, next_image)
  IN /\ pages' = r.pages
     /\ undo_stack' = r.stack
     /\ next_image' = next_image + 1
     /\ RecordLast("crop", p, NoId, RetBool(r.ret), r.kept, <<c, raises>>)
     /\ UNCHANGED <<workdir, export, loader, app_settings, heap, batch>>
     /\ UNCHANGED <<current_page_index, history_length, fill_color, scene, next_uuid>>

LoadDocument ==
  LET r == load_document(undo_stack, pages, LoadedPages(next_image))
  IN
  /\ pages' = r.pages
  /\ next_image' = next_image + NumPages
  /\ current_page_index' = 0
  /\ undo_stack' = r.stack
  /\ Record("load", 0, NoId, r.ret, FALSE)
  /\ UNCHANGED <<history_length, fill_color, scene, next_uuid>>

\* MainWindow.show_page and the navigation handlers that end in it
ShowPage(page_num) ==
  /\ page_num \in PageIdx
  /\ current_page_index' = page_num
  /\ scene' = SceneOf(pages, page_num)
  /\ Record("show_page", page_num, NoId, RetNone, FALSE)
  /\ UNCHANGED <<pages, undo_stack, history_length, fill_color, next_uuid, next_image>>

NextPage ==
  /\ current_page_index < NumPages - 1
  /\ current_page_index' = current_page_index + 1
  /\ scene' = SceneOf(pages, current_page_index + 1)
  /\ Record("next_page", current_page_index + 1, NoId, RetBool(TRUE), FALSE)
  /\ UNCHANGED <<pages, undo_stack, history_length, fill_color, next_uuid, next_image>>

PrevPage ==
  /\ current_page_index > 0
  /\ current_page_index' = current_page_index - 1
  /\ scene' = SceneOf(pages, current_page_index - 1)
  /\ Record("prev_page", current_page_index - 1, NoId, RetBool(TRUE), FALSE)
  /\ UNCHANGED <<pages, undo_stack, history_length, fill_color, next_uuid, next_image>>

\* PhotoViewer.mouseReleaseEvent: a completed rubber band <<left, top, right, bottom>>
Draw(band) ==
  LET r == add_redaction_rectangle(pages[current_page_index].rectangles, next_uuid,
                                   <<band[1], band[2]>>, <<band[3], band[4]>>, fill_color)
  IN /\ band[3] - band[1] >= MinDrawSize
     /\ band[4] - band[2] >= MinDrawSize
     /\ SetRects(current_page_index, r.rects)
     /\ next_uuid' = next_uuid + 1
        \* new_rect.id is read from the returned value; on a value without id
        \* the AttributeError is caught and no item is added
     /\ scene' = IF r.ret.kind = "rect" THEN Append(scene, ItemFor(r.ret.val)) ELSE scene
     /\ Record("draw", current_page_index, next_uuid, r.ret, FALSE)
     /\ UNCHANGED <<current_page_index, undo_stack, history_length, fill_color, next_image>>

\* HandleItem.mouseMoveEvent / mouseReleaseEvent on a corner handle of item i
HandleDrag(i, position, delta) ==
  LET item == [scene[i] EXCEPT !.rect = DragCorner(scene[i].rect, position, delta)]
  IN /\ scene' = [scene EXCEPT ![i] = item]
     /\ SetRects(current_page_index,
                 update_data_model_from_rect(pages[current_page_index].rectangles, item))
     /\ Record("resize_marker", current_page_index, item.entity_id, RetNone, FALSE)
     /\ UNCHANGED <<current_page_index, undo_stack, history_length, fill_color,
                    next_uuid, next_image>>

\* dragging the body of item i: ResizableRectItem.itemChange(ItemPositionHasChanged)
BodyDrag(i, delta) ==
  LET item == [scene[i] EXCEPT !.pos = <<scene[i].pos[1] + delta[1], scene[i].pos[2] + delta[2]>>]
  IN /\ scene' = [scene EXCEPT ![i] = item]
     /\ SetRects(current_page_index,
                 update_data_model_from_rect(pages[current_page_index].rectangles, item))
     /\ Record("move_marker", current_page_index, item.entity_id, RetNone, FALSE)
     /\ UNCHANGED <<current_page_index, undo_stack, history_length, fill_color,
                    next_uuid, next_image>>

\* MainWindow.delete_selected_marker with the items at positions sel selected
DeleteSelectedMarker(sel) ==
  /\ sel # {}
  /\ undo_stack' = push_undo_state(undo_stack, pages, current_page_index)
  /\ SetRects(current_page_index,
              RemoveAll(pages[current_page_index].rectangles, EntityIds(scene, sel)))
  /\ scene' = SelectSeq2(scene, (1 .. Len(scene)) \ sel)
  /\ Record("delete_selected", current_page_index, NoId, RetNone, TRUE)
  /\ UNCHANGED <<current_page_index, history_length, fill_color, next_uuid, next_image>>

\* MainWindow.delete_all
DeleteAll ==
  /\ undo_stack' = push_undo_state(undo_stack, pages, current_page_index)
  /\ SetRects(current_page_index, clear_rectangles(pages[current_page_index].rectangles).rects)
  /\ scene' = <<>>
  /\ Record("delete_all", current_page_index, NoId, RetNone, TRUE)
  /\ UNCHANGED <<current_page_index, history_length, fill_color, next_uuid, next_image>>

\* MainWindow.change_marker_color with the items at positions sel selected
ChangeMarkerColor(color, sel) ==
  /\ fill_color' = color
  /\ SetRects(current_page_index,
              SetColors(pages[current_page_index].rectangles, EntityIds(scene, sel), color))
  /\ scene' = [i \in 1 .. Len(scene) |->
                 IF i \in sel THEN [scene[i] EXCEPT !.brush = color] ELSE scene[i]]
  /\ Record("recolor_marker", current_page_index, NoId, RetNone, FALSE)
  /\ UNCHANGED <<current_page_index, undo_stack, history_length, next_uuid, next_image>>

\* MainWindow._rotate_page
RotateCurrent(angle) ==
  LET r == rotate_page(undo_stack, pages, current_page_index, angle, next_image)
  IN /\ pages' = r.pages
     /\ undo_stack' = r.stack
     /\ next_image' = next_image + 1
     /\ scene' = IF r.ret THEN SceneOf(r.pages, current_page_index) ELSE scene
     /\ Record("rotate", current_page_index, NoId, RetBool(r.ret), TRUE)
     /\ UNCHANGED <<current_page_index, history_length, fill_color, next_uuid>>

\* MainWindow.finish_crop with the crop item's scene rectangle c
FinishCrop(c, raises) ==
  LET r == crop_page(undo_stack, pages, current_page_index, c[1], c[2], c[3], c[4],
                     raises, next_image)
  IN /\ pages' = r.pages
     /\ undo_stack' = r.stack
     /\ next_image' = next_image + 1
     /\ scene' = IF r.ret THEN SceneOf(r.pages, current_page_index) ELSE scene
     /\ RecordLast("crop", current_page_index, NoId, RetBool(r.ret), r.kept, <<c, raises>>)
     /\ UNCHANGED <<workdir, export, loader, app_settings, heap, batch>>
     /\ UNCHANGED <<current_page_index, history_length, fill_color, next_uuid>>

\* MainWindow.undo: DocumentManagementService.undo, then show_page of the result
Undo ==
  LET r == undo(undo_stack, pages)
  IN /\ pages' = r.pages
     /\ undo_stack' = r.stack
     /\ current_page_index' = IF r.ret.kind = "int" THEN r.ret.val ELSE current_page_index
     /\ scene' = IF r.ret.kind = "int" THEN SceneOf(r.pages, r.ret.val) ELSE scene
     /\ Record("undo", IF r.ret.kind = "int" THEN r.ret.val ELSE current_page_index,
               NoId, r.ret, FALSE)
     /\ UNCHANGED <<history_length, fill_color, next_uuid, next_image>>

\* DocumentManagementService.push_undo_state called on its own
PushUndoState(p) ==
  /\ undo_stack' = push_undo_state(undo_stack, pages, p)
  /\ Record("push", p, NoId, RetNone, p \in PageIdx)
  /\ UNCHANGED <<pages, current_page_index, history_length, fill_color, scene,
                 next_uuid, next_image>>

\* DocumentEntity, built page by page; a PageEntity is constructed with or
\* without an image
AddPage(with_image) ==
  LET page == [image |-> IF with_image THEN [id |-> next_image, size |-> ImageSize0]
                         ELSE NoImage,
               rectangles |-> <<>>]
      r == add_page(pages, page)
  IN /\ pages' = r.pages
     /\ next_image' = next_image + 1
     /\ Record("add_page", page_count(pages), NoId, RetBool(r.ret), FALSE)
     /\ UNCHANGED <<current_page_index, undo_stack, history_length, fill_color,
                    scene, next_uuid>>

RemovePage(page_index) ==
  LET r == remove_page(pages, current_page_index, page_index)
  IN /\ pages' = r.pages
     /\ current_page_index' = r.current_page_index
     /\ Record("remove_page", page_index, NoId, RetBool(r.ret), FALSE)
     /\ UNCHANGED <<undo_stack, history_length, fill_color, scene, next_uuid, next_image>>

SetCurrentPage(page_index) ==
  LET r == set_current_page(pages, current_page_index, page_index)
  IN /\ current_page_index' = r.current_page_index
     /\ Record("set_current_page", page_index, NoId, RetBool(r.ret), FALSE)
     /\ UNCHANGED <<pages, undo_stack, history_length, fill_color, scene, next_uuid,
                    next_image>>

DocNextPage ==
  LET r == next_page(pages, current_page_index)
  IN /\ current_page_index' = r.current_page_index
     /\ Record("doc_next_page", current_page_index, NoId, RetBool(r.ret), FALSE)
     /\ UNCHANGED <<pages, undo_stack, history_length, fill_color, scene, next_uuid,
                    next_image>>

DocPreviousPage ==
  LET r == previous_page(current_page_index)
  IN /\ current_page_index' = r.current_page_index
     /\ Record("doc_previous_page", current_page_index, NoId, RetBool(r.ret), FALSE)
     /\ UNCHANGED <<pages, undo_stack, history_length, fill_color, scene, next_uuid,
                    next_image>>

\* DocumentManagementService navigation, on the document passed in
navigate_to_page(cur, page_index) ==
  [current_page_index |-> page_index, ret |-> RetNone]

navigate_next_page(pgs, cur) ==
  IF cur < page_count(pgs) - 1
  THEN [current_page_index |-> cur + 1, ret |-> RetBool(TRUE)]
  ELSE [current_page_index |-> cur, ret |-> RetBool(FALSE)]

navigate_previous_page(cur) ==
  IF cur > 0
  THEN [current_page_index |-> cur - 1, ret |-> RetBool(TRUE)]
  ELSE [current_page_index |-> cur, ret |-> RetBool(FALSE)]

NavigateToPage(page_index) ==
  LET r == navigate_to_page(current_page_index, page_index)
  IN /\ current_page_index' = r.current_page_index
     /\ Record("navigate_to_page", page_index, NoId, r.ret, FALSE)
     /\ UNCHANGED <<pages, undo_stack, history_length, fill_color, scene, next_uuid,
                    next_image>>

NavigateNextPage ==
  LET r == navigate_next_page(pages, current_page_index)
  IN /\ current_page_index' = r.current_page_index
     /\ Record("navigate_next_page", current_page_index, NoId, r.ret, FALSE)
     /\ UNCHANGED <<pages, undo_stack, history_length, fill_color, scene, next_uuid,
                    next_image>>

NavigatePreviousPage ==
  LET r == navigate_previous_page(current_page_index)
  IN /\ current_page_index' = r.current_page_index
     /\ Record("navigate_previous_page", current_page_index, NoId, r.ret, FALSE)
     /\ UNCHANGED <<pages, undo_stack, history_length, fill_color, scene, next_uuid,
                    next_image>>

\* ----------------------------------------------- FileSystemDocumentRepository
\* The work-file directory is the sequence of its files ordered by
\* os.path.getctime (inode change time: a file that is written again becomes
\* the newest); a file is [name, data], data being the parsed JSON value.
WorkPaths == {"a.pdf", "b.pdf", "c.pdf"}
WorkHistoryLengths == {0, 1, 2}
DefaultOutputQuality == "ebook"

\* md5(filepath).hexdigest(): a different name for each of the paths used
encode_filepath(filepath) ==
  CASE filepath = "a.pdf" -> "0cc175b9"
    [] filepath = "b.pdf" -> "92eb5ffe"
    [] OTHER -> "4a8a08f0"

Some(v) == [kind |-> "some", val |-> v]

\* an export that lists each page's rectangles last to first
export_rectangles_reversed(pgs) ==
  LET rectangles ==
        [k \in 1 .. page_count(pgs) |->
           [i \in 1 .. Len(pgs[k - 1].rectangles) |->
              LET rect == pgs[k - 1].rectangles[Len(pgs[k - 1].rectangles) + 1 - i]
              IN <<rect.start_point, rect.end_point, rect.color>>]]
  IN IF \E k \in 1 .. page_count(pgs) : Len(rectangles[k]) > 0
     THEN Some(rectangles) ELSE RetNone

\* _export_rectangles: per page, in page order, the list of
\* [start, end, color] triples; None when no page has a rectangle
export_rectangles(pgs) ==
  LET rectangles ==
        [k \in 1 .. page_count(pgs) |->
           [i \in 1 .. Len(pgs[k - 1].rectangles) |->
              LET rect == pgs[k - 1].rectangles[i]
              IN <<rect.start_point, rect.end_point, rect.color>>]]
  IN IF \E k \in 1 .. page_count(pgs) : Len(rectangles[k]) > 0
     THEN Some(rectangles) ELSE RetNone

FileIndex(dir, name) ==
  IF \E i \in 1 .. Len(dir) : dir[i].name = name
  THEN CHOOSE i \in 1 .. Len(dir) : dir[i].name = name
  ELSE 0

\* open(name, "w") and json.dump
write_file(dir, name, data) ==
  LET i == FileIndex(dir, name)
  IN Append(IF i = 0 THEN dir ELSE DeleteAt(dir, i), [name |-> name, data |-> data])

\* the length of seq[:stop] for a Python sequence of length n
SliceStop(n, stop) == IF stop < 0 THEN Max(0, n + stop) ELSE Min(stop, n)

\* _delete_oldest_files: removes sorted_files[:-file_limit]
delete_oldest_files(dir, file_limit) ==
  IF Len(dir) > file_limit
  THEN SubSeq(dir, SliceStop(Len(dir), -file_limit) + 1, Len(dir))
  ELSE dir

\* a deletion that empties the whole directory
delete_workfile_all(dir, file_path) ==
  IF FileIndex(dir, encode_filepath(file_path)) # 0 THEN <<>> ELSE dir

\* _delete_workfile
delete_workfile(dir, file_path) ==
  LET i == FileIndex(dir, encode_filepath(file_path))
  IN IF i # 0 THEN DeleteAt(dir, i) ELSE dir

\* save_work_file; fails says whether writing the file raises
save_work_file(dir, pgs, cur, file_path, settings, fails) ==
  LET rectangles == export_rectangles(pgs)
  IN IF rectangles # RetNone
     THEN IF fails
          THEN [dir |-> dir, ret |-> FALSE]
          ELSE LET work_data == [rectangles |-> rectangles.val,
                                 pages |-> page_count(pgs),
                                 current_page |-> cur,
                                 fill_color |-> settings.fill_color,
                                 output_quality |-> settings.output_quality]
               IN [dir |-> delete_oldest_files(
                             write_file(dir, encode_filepath(file_path), work_data),
                             settings.history_length),
                   ret |-> TRUE]
     ELSE [dir |-> delete_workfile(dir, file_path), ret |-> TRUE]

\* load_work_file
load_work_file(dir, file_path) ==
  LET i == FileIndex(dir, encode_filepath(file_path))
  IN IF i # 0 THEN Some(dir[i].data) ELSE RetNone

\* a record of the call, with the directory it started from
SaveWorkFile(file_path, fails) ==
  LET settings == [fill_color |-> fill_color, output_quality |-> DefaultOutputQuality,
                   history_length |-> history_length]
      r == save_work_file(workdir, pages, current_page_index, file_path, settings, fails)
  IN /\ workdir' = r.dir
     /\ RecordLast("save_work_file", current_page_index, NoId, RetBool(r.ret), FALSE,
                   [file_path |-> file_path, fails |-> fails, dir |-> workdir])
     /\ UNCHANGED <<pages, current_page_index, undo_stack, history_length, fill_color,
                    scene, next_uuid, next_image, export, loader, app_settings, heap, batch>>

LoadWorkFile(file_path) ==
  /\ RecordLast("load_work_file", current_page_index, NoId,
                load_work_file(workdir, file_path), FALSE,
                [file_path |-> file_path, fails |-> FALSE, dir |-> workdir])
  /\ UNCHANGED <<pages, current_page_index, undo_stack, history_length, fill_color,
                 scene, next_uuid, next_image, workdir, export,
                 loader, app_settings, heap, batch>>

\* FileSystemDocumentRepository.save_document: save_work_file with fixed
\* settings that carry no history_length
repository_save_document(dir, pgs, cur, file_path, fails) ==
  save_work_file(dir, pgs, cur, file_path,
                 [fill_color |-> "black", output_quality |-> "ebook",
                  history_length |-> WorkFileHistoryDefault], fails)

\* FileSystemDocumentRepository.export_document
repository_export_document == TRUE

\* DocumentManagementService.save_document: calls the repository and
\* returns nothing
save_document(dir, pgs, cur, file_path, fails) ==
  LET r == repository_save_document(dir, pgs, cur, file_path, fails)
  IN [dir |-> r.dir, pages |-> pgs, repository |-> r.ret, ret |-> RetNone]

\* DocumentManagementService.export_document: calls the repository and
\* returns nothing
export_document(pgs) ==
  [pages |-> pgs, repository |-> repository_export_document, ret |-> RetNone]

ServiceSaveDocument(file_path, fails) ==
  LET r == save_document(workdir, pages, current_page_index, file_path, fails)
  IN /\ workdir' = r.dir
     /\ pages' = r.pages
     /\ RecordLast("save_document", current_page_index, NoId, r.ret, FALSE,
                   [file_path |-> file_path, repository |-> r.repository])
     /\ UNCHANGED <<current_page_index, undo_stack, history_length, fill_color,
                    scene, next_uuid, next_image, export, loader, app_settings, heap, batch>>

ServiceExportDocument(file_path) ==
  LET r == export_document(pages)
  IN /\ pages' = r.pages
     /\ RecordLast("export_document", current_page_index, NoId, r.ret, FALSE,
                   [file_path |-> file_path, repository |-> r.repository])
     /\ UNCHANGED <<current_page_index, undo_stack, history_length, fill_color,
                    scene, next_uuid, next_image, workdir, export, loader, app_settings, heap, batch>>

\* no export has been started
NoExport == [pc |-> "idle"]
\* no load worker has been started
NoLoader == [pc |-> "idle"]
\* the settings have not been read
NoSettings == [pc |-> "unread"]
\* no object is tracked by reference
NoHeap == [pc |-> "untracked"]
\* no BatchOperationWorker exists
NoBatch == [pc |-> "idle"]

\* ------------------------------------------------------------ ExportWorker
ExportPaths == {"out.pdf"}
FinalizeOutcomes == {"saved", "save_failed", "raises"}

\* TesseractOCRService.process_page: the PDF of the page image with its
\* rectangles drawn, or None when anything in it raises (a page without an
\* image always does; tool_ok says whether the imaging and OCR calls succeed)
process_page(page, tool_ok) ==
  IF HasImage(page) /\ tool_ok
  THEN Some([image |-> page.image, rectangles |-> page.rectangles])
  ELSE RetNone

\* the messages of the error signal
PageError(n) == [kind |-> "page", page |-> n]
ExceptionError == [kind |-> "exception", page |-> 0]

Finished(success, message, file_path) ==
  [success |-> success, message |-> message, file_path |-> file_path]

\* export_document up to the loop: the worker is created with _cancelled
\* False and the first two progress updates are emitted
export_start(total_pages, file_path) ==
  [pc |-> "loop", i |-> 0, total_pages |-> total_pages, file_path |-> file_path,
   cancelled |-> FALSE, merger |-> <<>>, results |-> <<>>, progress |-> <<0, 5>>,
   errors |-> <<>>, finished |-> RetNone, output |-> RetNone]

\* a loop body that gives up the whole export when a page fails
export_page_stops_on_failure(e, page, tool_ok) ==
  LET creation_progress == 5 + (e.i * 40) \div e.total_pages
      pdf_page == process_page(page, tool_ok)
      emitted == [e EXCEPT !.progress = @ \o <<creation_progress, creation_progress + 2>>,
                           !.results = Append(@, pdf_page # RetNone)]
  IN IF pdf_page # RetNone
     THEN [emitted EXCEPT !.i = @ + 1, !.merger = Append(@, pdf_page.val)]
     ELSE [emitted EXCEPT !.pc = "done", !.errors = Append(@, PageError(e.i + 1)),
                          !.finished = Finished(FALSE, "error", "")]

\* one pass of the loop body for page e.i when _cancelled is not set;
\* results keeps what process_page returned for each page, in call order
export_page(e, page, tool_ok) ==
  LET creation_progress == 5 + (e.i * 40) \div e.total_pages
      pdf_page == process_page(page, tool_ok)
      emitted == [e EXCEPT !.i = @ + 1,
                           !.progress = @ \o <<creation_progress, creation_progress + 2>>,
                           !.results = Append(@, pdf_page # RetNone)]
  IN IF pdf_page # RetNone
     THEN [emitted EXCEPT !.merger = Append(@, pdf_page.val)]
     ELSE [emitted EXCEPT !.errors = Append(@, PageError(e.i + 1))]

\* the top of the loop body when _cancelled is set
export_cancelled(e) ==
  [e EXCEPT !.pc = "done", !.finished = Finished(FALSE, "cancelled", "")]

\* after the loop: merger.write, save_raw and the finished signal; outcome
\* says whether merger.write raises and whether save_raw succeeds
export_finalize(e, outcome) ==
  CASE outcome = "raises" ->
         [e EXCEPT !.pc = "done", !.progress = @ \o <<75>>,
                   !.errors = Append(@, ExceptionError),
                   !.finished = Finished(FALSE, "error", "")]
    [] outcome = "saved" ->
         [e EXCEPT !.pc = "done", !.progress = @ \o <<75, 90, 100>>,
                   !.output = Some(e.merger),
                   !.finished = Finished(TRUE, "exported", e.file_path)]
    [] OTHER ->
         [e EXCEPT !.pc = "done", !.progress = @ \o <<75, 90>>,
                   !.finished = Finished(FALSE, "save_failed", "")]

\* ExportWorker.cancel
cancel(e) == [e EXCEPT !.cancelled = TRUE]

ExportUnchanged ==
  UNCHANGED <<pages, current_page_index, undo_stack, history_length, fill_color,
              scene, next_uuid, next_image, push_log, steps, workdir,
              loader, app_settings, heap, batch, last>>

\* MainWindow._export_document_threaded creates the worker and starts its thread
StartExport(file_path) ==
  /\ export.pc = "idle"
  /\ export' = export_start(page_count(pages), file_path)
  /\ ExportUnchanged

ExportPage(tool_ok) ==
  /\ export.pc = "loop"
  /\ export.i < export.total_pages
  /\ ~export.cancelled
  /\ export' = export_page(export, pages[export.i], tool_ok)
  /\ ExportUnchanged

ExportCancelled ==
  /\ export.pc = "loop"
  /\ export.i < export.total_pages
  /\ export.cancelled
  /\ export' = export_cancelled(export)
  /\ ExportUnchanged

ExportFinalize(outcome) ==
  /\ export.pc = "loop"
  /\ export.i = export.total_pages
  /\ export' = export_finalize(export, outcome)
  /\ ExportUnchanged

\* the progress dialog's canceled signal, at any moment of the run
Cancel ==
  /\ export.pc = "loop"
  /\ ~export.cancelled
  /\ export' = cancel(export)
  /\ ExportUnchanged

\* ---------------------------------------------------- DocumentLoaderWorker
\* what get_current_document() returns: current is "kept" until
\* DocumentManagementService.load_document assigns _current_document, then
\* "new" (the loaded document, held in pages) or "none" (None)
get_current_document(l, pgs) ==
  IF l.pc # "idle" /\ l.current = "none" THEN RetNone ELSE RetDoc(pgs)

\* repo_progress_callback: 5 + int((current / total) * 75)
RepoPercentage(current, total) == 5 + (current * 75) \div total
\* 80 + int((i / total_pages) * 15)
ThumbnailPercentage(i, total_pages) == 80 + (i * 15) \div total_pages

\* load_document up to the call of the service: the worker is created with
\* _cancelled False; previous keeps the document and the stack of that moment
load_start(total, pgs, stack) ==
  [pc |-> "rasterize", total |-> total, i |-> 0, cancelled |-> FALSE,
   building |-> NoPages, current |-> "kept", progress |-> <<0, 5>>,
   page_loaded |-> <<>>, finished |-> RetNone, errors |-> <<>>,
   previous |-> [pages |-> pgs, stack |-> stack]]

LoadUnchanged ==
  UNCHANGED <<history_length, fill_color, scene, next_uuid, push_log, steps, workdir,
              export, app_settings, heap, batch, last>>

\* MainWindow._load_document_threaded creates the worker and starts its thread
StartLoad(total) ==
  /\ loader.pc = "idle"
  /\ loader' = load_start(total, pages, undo_stack)
  /\ UNCHANGED <<pages, current_page_index, undo_stack, next_image>>
  /\ LoadUnchanged

\* one pass of the repository's page loop.  The callback raises
\* InterruptedError when _cancelled is set and the renderer may raise; both
\* are caught by the repository's own except Exception, it returns None,
\* the service stores None and clears the stack, and the worker, finding no
\* document, emits the error signal and returns
RasterizePage(raises) ==
  /\ loader.pc = "rasterize"
  /\ loader.i < loader.total
  /\ IF loader.cancelled \/ raises
     THEN /\ loader' = [loader EXCEPT
                          !.pc = "done", !.current = "none",
                          !.progress = IF loader.cancelled THEN @
                                       ELSE Append(@, RepoPercentage(loader.i, loader.total)),
                          !.errors = Append(@, "failed_to_load")]
          /\ undo_stack' = <<>>
          /\ UNCHANGED <<pages, current_page_index, next_image>>
     ELSE /\ loader' = [loader EXCEPT
                          !.i = @ + 1,
                          !.progress = Append(@, RepoPercentage(loader.i, loader.total)),
                          !.building = add_page(@, [image |-> [id |-> next_image, size |-> ImageSize0],
                                                    rectangles |-> <<>>]).pages]
          /\ next_image' = next_image + 1
          /\ UNCHANGED <<pages, current_page_index, undo_stack>>
  /\ LoadUnchanged

\* the repository returns the document, the service makes it current and
\* clears the stack, and the worker tests _cancelled before the thumbnails
RasterizeDone ==
  /\ loader.pc = "rasterize"
  /\ loader.i = loader.total
  /\ LET r == load_document(undo_stack, pages, loader.building)
     IN /\ pages' = r.pages
        /\ undo_stack' = r.stack
        /\ current_page_index' = 0
  /\ loader' = IF loader.cancelled
               THEN [loader EXCEPT !.pc = "done", !.current = "new", !.finished = Some(RetNone)]
               ELSE [loader EXCEPT !.pc = "thumbnails", !.current = "new", !.i = 0,
                                   !.progress = Append(@, 80)]
  /\ UNCHANGED next_image
  /\ LoadUnchanged

\* one pass of the thumbnail loop
ThumbnailPage ==
  /\ loader.pc = "thumbnails"
  /\ loader.i < loader.total
  /\ loader' = IF loader.cancelled
               THEN [loader EXCEPT !.pc = "done", !.finished = Some(RetNone)]
               ELSE [loader EXCEPT
                       !.i = @ + 1,
                       !.progress = Append(@, ThumbnailPercentage(loader.i, loader.total)),
                       !.page_loaded = Append(@, loader.i)]
  /\ UNCHANGED <<pages, current_page_index, undo_stack, next_image>>
  /\ LoadUnchanged

\* after the thumbnail loop: the last progress update and finished(document)
LoadComplete ==
  /\ loader.pc = "thumbnails"
  /\ loader.i = loader.total
  /\ loader' = [loader EXCEPT !.pc = "done", !.progress = Append(@, 100),
                              !.finished = Some(RetDoc(pages))]
  /\ UNCHANGED <<pages, current_page_index, undo_stack, next_image>>
  /\ LoadUnchanged

\* DocumentLoaderWorker.cancel, at any moment of the run
CancelLoad ==
  /\ loader.pc \in {"rasterize", "thumbnails"}
  /\ ~loader.cancelled
  /\ loader' = [loader EXCEPT !.cancelled = TRUE]
  /\ UNCHANGED <<pages, current_page_index, undo_stack, next_image>>
  /\ LoadUnchanged

\* ------------------------------------------- SettingsEntity and repository
valid_colors == {"black", "white", "red", "green"}
valid_qualities == {"screen", "ebook", "printer", "prepress"}

\* SettingsEntity(): the fields that validate() examines by value
DefaultSettings ==
  [fill_color |-> "black", output_quality |-> "ebook",
   history_length |-> DefaultHistoryLength, zoom_level |-> 100]

validate(s) ==
  /\ s.fill_color \in valid_colors
  /\ s.output_quality \in valid_qualities
  /\ s.history_length >= 0
  /\ s.zoom_level >= 10 /\ s.zoom_level <= 400

\* from_dict: every key of the record that is an attribute overwrites it
from_dict(data) ==
  [k \in DOMAIN DefaultSettings |-> IF k \in DOMAIN data THEN data[k] ELSE DefaultSettings[k]]

to_dict(s) == s

\* settings.json: absent, unreadable as JSON, or a record
AbsentFile == [kind |-> "absent"]
CorruptFile == [kind |-> "corrupt"]
RecordFile(data) == [kind |-> "record", data |-> data]

\* JsonSettingsRepository.load_settings
load_settings(file) ==
  IF file.kind = "absent" THEN DefaultSettings
  ELSE IF file.kind = "corrupt" THEN DefaultSettings
  ELSE from_dict(file.data)

\* JsonSettingsRepository.save_settings; fails says whether the write raises
save_settings(file, s, fails) ==
  IF fails THEN [file |-> file, ret |-> FALSE]
  ELSE [file |-> RecordFile(to_dict(s)), ret |-> TRUE]

\* MainWindow.color_map and the entries of the quality combo box
color_map == [Black |-> "#000000", White |-> "#ffffff", Red |-> "#ff0000", Green |-> "#00ff00"]
QualityNames == {"Screen", "Ebook", "Printer", "Prepress"}
Lower(quality) ==
  [Screen |-> "screen", Ebook |-> "ebook", Printer |-> "printer", Prepress |-> "prepress"][quality]

\* MainWindow.__init__: the settings are loaded and applied
LoadSettings ==
  /\ app_settings.pc \in {"unread", "closed"}
  /\ LET entity == load_settings(app_settings.file)
     IN /\ app_settings' = [pc |-> "loaded", file |-> app_settings.file, settings |-> entity,
                            output_quality |-> entity.output_quality]
        /\ fill_color' = entity.fill_color
        /\ history_length' = entity.history_length
  /\ RecordLast("load_settings", current_page_index, NoId, RetNone, FALSE, <<>>)
  /\ UNCHANGED <<pages, current_page_index, undo_stack, scene, next_uuid, next_image,
                 workdir, export, loader, heap, batch>>

\* MainWindow.change_quality
ChangeQuality(quality) ==
  /\ app_settings.pc = "loaded"
  /\ app_settings' = [app_settings EXCEPT !.output_quality = Lower(quality)]
  /\ RecordLast("change_quality", current_page_index, NoId, RetNone, FALSE, <<>>)
  /\ UNCHANGED <<pages, current_page_index, undo_stack, history_length, fill_color, scene,
                 next_uuid, next_image, workdir, export, loader, heap, batch>>

\* MainWindow.closeEvent: the window's values are copied into the settings,
\* which are saved
CloseEvent(fails) ==
  /\ app_settings.pc = "loaded"
  /\ LET entity == [app_settings.settings EXCEPT !.fill_color = fill_color,
                                                !.output_quality = app_settings.output_quality]
         r == save_settings(app_settings.file, entity, fails)
     IN /\ app_settings' = [app_settings EXCEPT !.pc = "closed", !.settings = entity,
                                                !.file = r.file]
        /\ RecordLast("close", current_page_index, NoId, RetBool(r.ret), FALSE, <<>>)
  /\ UNCHANGED <<pages, current_page_index, undo_stack, history_length, fill_color, scene,
                 next_uuid, next_image, workdir, export, loader, heap, batch>>

\* ------------------------------------------------- the objects, by reference
\* heap.rect, heap.list and heap.image hold the RectangleEntity objects, the
\* rectangle lists and the PIL images ever created; a reference is an index
\* into them. heap.pages and heap.stack are document.pages and undo_stack
\* with references in place of values; heap.taken[k] is the value that
\* snapshot k had when push_undo_state stored it.
NoRef == 0

RefRange(refs) == {refs[i] : i \in 1 .. Len(refs)}

DerefList(h, list_ref) == [i \in 1 .. Len(h.list[list_ref]) |-> h.rect[h.list[list_ref][i]]]
DerefImage(h, image_ref) == IF image_ref = NoRef THEN NoImage ELSE h.image[image_ref]

DerefPages(h) ==
  [p \in DOMAIN h.pages |-> [image |-> DerefImage(h, h.pages[p].image),
                             rectangles |-> DerefList(h, h.pages[p].rectangles)]]

DerefState(h, state) ==
  [page_index |-> state.page_index,
   image |-> DerefImage(h, state.image),
   rectangles |-> DerefList(h, state.rectangles)]

DerefStack(h) == [k \in 1 .. Len(h.stack) |-> DerefState(h, h.stack[k])]

\* a copy that hands back the list it was given
deepcopy_same_list(h, list_ref) == [heap |-> h, ref |-> list_ref]

\* copy.deepcopy(page.rectangles): a new list of new RectangleEntity objects
deepcopy(h, list_ref) ==
  LET refs == h.list[list_ref]
      copies == [i \in 1 .. Len(refs) |-> h.rect[refs[i]]]
      new_refs == [i \in 1 .. Len(refs) |-> Len(h.rect) + i]
  IN [heap |-> [h EXCEPT !.rect = @ \o copies, !.list = Append(@, new_refs)],
      ref |-> Len(h.list) + 1]

\* page.image.copy() if page.image else None
image_copy(h, image_ref) ==
  IF image_ref = NoRef THEN [heap |-> h, ref |-> NoRef]
  ELSE [heap |-> [h EXCEPT !.image = Append(@, h.image[image_ref])], ref |-> Len(h.image) + 1]

\* push_undo_state on the objects
push_undo_state_refs(h, page_index) ==
  IF page_index \in DOMAIN h.pages
  THEN LET page == h.pages[page_index]
           rectangles_copy == deepcopy(h, page.rectangles)
           copied == image_copy(rectangles_copy.heap, page.image)
           state == [page_index |-> page_index, image |-> copied.ref,
                     rectangles |-> rectangles_copy.ref]
       IN [copied.heap EXCEPT !.stack = LimitStack(Append(@, state)),
                              !.taken = LimitStack(Append(@, Snapshot(DerefPages(h), page_index)))]
  ELSE h

\* undo on the objects: the popped snapshot's image and list become the page's
undo_refs(h) ==
  IF Len(h.stack) = 0 THEN h
  ELSE LET state == Top(h.stack)
           popped == [h EXCEPT !.stack = Pop(@), !.taken = Pop(@)]
       IN IF state.page_index \in DOMAIN h.pages
          THEN [popped EXCEPT !.pages[state.page_index] =
                                [image |-> state.image, rectangles |-> state.rectangles]]
          ELSE popped

\* PageEntity.add_rectangle: self.rectangles.append(rectangle), a new object
add_rectangle_refs(h, p, rectangle) ==
  [h EXCEPT !.rect = Append(@, rectangle),
            !.list[h.pages[p].rectangles] = Append(@, Len(h.rect) + 1)]

\* PageEntity.remove_rectangle: del self.rectangles[i]
remove_rectangle_refs(h, p, id) ==
  LET i == IndexOf(DerefList(h, h.pages[p].rectangles), id)
  IN IF i = 0 THEN h ELSE [h EXCEPT !.list[h.pages[p].rectangles] = DeleteAt(@, i)]

\* page.rectangles.clear()
clear_refs(h, p) == [h EXCEPT !.list[h.pages[p].rectangles] = <<>>]

\* an attribute assignment to the RectangleEntity that get_rectangle returned
write_refs(h, p, id, rectangle) ==
  LET refs == h.list[h.pages[p].rectangles]
      i == IndexOf(DerefList(h, h.pages[p].rectangles), id)
  IN IF i = 0 THEN h ELSE [h EXCEPT !.rect[refs[i]] = rectangle]

\* page.image = <a new image>
set_image_refs(h, p, image) ==
  [h EXCEPT !.image = Append(@, image), !.pages[p].image = Len(h.image) + 1]

\* rotate_page on the objects
rotate_page_refs(h, page_index, angle, new_id) ==
  IF page_index \in DOMAIN h.pages
  THEN LET pushed == push_undo_state_refs(h, page_index)
           image == DerefImage(h, h.pages[page_index].image)
       IN IF image # NoImage
          THEN clear_refs(set_image_refs(pushed, page_index,
                                         [id |-> new_id, size |-> RotatedSize(image.size, angle)]),
                          page_index)
          ELSE pushed
  ELSE h

\* crop_page on the objects
crop_page_refs(h, page_index, x, y, width, height, raises, new_id) ==
  IF page_index \in DOMAIN h.pages
  THEN LET pushed == push_undo_state_refs(h, page_index)
           img == DerefImage(h, h.pages[page_index].image)
           box == CropBox(img.size, x, y, width, height)
       IN IF img # NoImage /\ box[3] > 0 /\ box[4] > 0
          THEN IF raises
               THEN IF Len(pushed.stack) > 0
                    THEN [pushed EXCEPT !.stack = Pop(@), !.taken = Pop(@)]
                    ELSE pushed
               ELSE clear_refs(set_image_refs(pushed, page_index,
                                              [id |-> new_id,
                                               size |-> CropTargetSize(box[3], box[4])]),
                               page_index)
          ELSE pushed
  ELSE h

\* every action on the objects leaves pages and undo_stack equal to what the
\* references denote
Tracked(h) ==
  /\ heap' = h
  /\ pages' = DerefPages(h)
  /\ undo_stack' = DerefStack(h)
  /\ UNCHANGED <<current_page_index, history_length, fill_color, scene, next_image,
                 workdir, export, loader, app_settings, batch>>

RefPushUndoState(p) ==
  /\ Tracked(push_undo_state_refs(heap, p))
  /\ RecordLast("push", p, NoId, RetNone, TRUE, <<>>)
  /\ UNCHANGED next_uuid

RefUndo ==
  /\ Tracked(undo_refs(heap))
  /\ RecordLast("undo", current_page_index, NoId, RetNone, FALSE, <<>>)
  /\ UNCHANGED next_uuid

RefAddRectangle(p, s, e, c) ==
  /\ Tracked(add_rectangle_refs(heap, p, RectangleEntity(next_uuid, s, e, c)))
  /\ next_uuid' = next_uuid + 1
  /\ RecordLast("add", p, next_uuid, RetBool(TRUE), FALSE, <<>>)

RefRemoveRectangle(p, id) ==
  /\ Tracked(remove_rectangle_refs(heap, p, id))
  /\ RecordLast("remove", p, id, RetNone, FALSE, <<>>)
  /\ UNCHANGED next_uuid

\* RedactionService.move_redaction_rectangle: the moved rectangle is a new
\* object that replaces the old one
RefMoveRectangle(p, id, d) ==
  /\ HasRectangle(pages[p].rectangles, id)
  /\ Tracked(add_rectangle_refs(remove_rectangle_refs(heap, p, id), p,
                                move(get_rectangle(pages[p].rectangles, id), d[1], d[2])))
  /\ RecordLast("move", p, id, RetBool(TRUE), FALSE, <<>>)
  /\ UNCHANGED next_uuid

\* ResizableRectItem.update_data_model_from_rect for an item of the scene
RefWriteGeometry(item) ==
  /\ HasRectangle(pages[current_page_index].rectangles, item.entity_id)
  /\ Tracked(write_refs(heap, current_page_index, item.entity_id,
                        get_rectangle(update_data_model_from_rect(
                                        pages[current_page_index].rectangles, item),
                                      item.entity_id)))
  /\ RecordLast("write_geometry", current_page_index, item.entity_id, RetNone, FALSE, <<>>)
  /\ UNCHANGED next_uuid

\* MainWindow.change_marker_color for one selected item
RefWriteColor(id, color) ==
  /\ HasRectangle(pages[current_page_index].rectangles, id)
  /\ Tracked(write_refs(heap, current_page_index, id,
                        get_rectangle(SetColors(pages[current_page_index].rectangles,
                                                {id}, color), id)))
  /\ RecordLast("write_color", current_page_index, id, RetNone, FALSE, <<>>)
  /\ UNCHANGED next_uuid

RefRotatePage(p, angle) ==
  /\ heap' = rotate_page_refs(heap, p, angle, next_image)
  /\ pages' = DerefPages(heap')
  /\ undo_stack' = DerefStack(heap')
  /\ next_image' = next_image + 1
  /\ RecordLast("rotate", p, NoId, RetNone, TRUE, <<>>)
  /\ UNCHANGED <<current_page_index, history_length, fill_color, scene, next_uuid,
                 workdir, export, loader, app_settings, batch>>

RefCropPage(p, c, raises) ==
  /\ heap' = crop_page_refs(heap, p, c[1], c[2], c[3], c[4], raises, next_image)
  /\ pages' = DerefPages(heap')
  /\ undo_stack' = DerefStack(heap')
  /\ next_image' = next_image + 1
  /\ RecordLast("crop", p, NoId, RetNone, ~raises, <<c, raises>>)
  /\ UNCHANGED <<current_page_index, history_length, fill_color, scene, next_uuid,
                 workdir, export, loader, app_settings, batch>>

\* ---------------------------------------------------- BatchOperationWorker
\* the update functions a caller may hand over: two callables that change the
\* document, one that raises before changing it, and a value that is not
\* callable
UpdateFuncs == {"clear_markers", "recolor_markers", "raises", "not_callable"}

RecolorAll(rects) == [i \in 1 .. Len(rects) |-> [rects[i] EXCEPT !.color = "red"]]

\* update_func(document)
update_func(f, pgs) ==
  IF f = "clear_markers" THEN [p \in DOMAIN pgs |-> [pgs[p] EXCEPT !.rectangles = <<>>]]
  ELSE IF f = "recolor_markers"
  THEN [p \in DOMAIN pgs |-> [pgs[p] EXCEPT !.rectangles = RecolorAll(@)]]
  ELSE pgs

\* BatchOperationWorker.__init__
batch_start(f) ==
  [pc |-> "created", update_func |-> f, cancelled |-> FALSE, cancelled_at_start |-> FALSE,
   applied |-> FALSE, progress |-> <<>>, finished |-> RetNone, errors |-> <<>>]

\* BatchOperationWorker.execute_batch_operation
execute_batch_operation(b, pgs) ==
  LET started == [b EXCEPT !.pc = "done", !.cancelled_at_start = b.cancelled,
                           !.progress = <<0>>]
  IN IF b.update_func = "not_callable"
     THEN [batch |-> [started EXCEPT !.errors = <<"invalid">>,
                                     !.finished = Some([success |-> FALSE, message |-> "invalid"])],
           pages |-> pgs]
     ELSE IF b.update_func = "raises"
     THEN [batch |-> [started EXCEPT !.applied = TRUE, !.errors = <<"exception">>,
                                     !.finished = Some([success |-> FALSE, message |-> "exception"])],
           pages |-> pgs]
     ELSE [batch |-> [started EXCEPT !.applied = TRUE, !.progress = <<0, 100>>,
                                     !.finished = Some([success |-> TRUE, message |-> "completed"])],
           pages |-> update_func(b.update_func, pgs)]

BatchUnchanged ==
  UNCHANGED <<current_page_index, undo_stack, history_length, fill_color, scene, next_uuid,
              next_image, push_log, steps, workdir, export, loader, app_settings, heap, last>>

\* MainWindow.trigger_batch_marker_operation creates the worker and its thread
StartBatch(f) ==
  /\ batch.pc = "idle"
  /\ batch' = batch_start(f)
  /\ UNCHANGED pages
  /\ BatchUnchanged

\* BatchOperationWorker.cancel, before or after the run
CancelBatch ==
  /\ batch.pc \in {"created", "done"}
  /\ ~batch.cancelled
  /\ batch' = [batch EXCEPT !.cancelled = TRUE]
  /\ UNCHANGED pages
  /\ BatchUnchanged

\* the thread's started signal runs execute_batch_operation
ExecuteBatch ==
  /\ batch.pc = "created"
  /\ LET r == execute_batch_operation(batch, pages)
     IN /\ batch' = r.batch
        /\ pages' = r.pages
  /\ BatchUnchanged

\* ------------------------------------------------------------ specifications
\* a document has been loaded and its first page is shown
Init ==
  /\ pages = LoadedPages(1)
  /\ next_image = NumPages + 1
  /\ current_page_index = 0
  /\ undo_stack = <<>>
  /\ history_length = DefaultHistoryLength
  /\ fill_color = "black"
  /\ scene = <<>>
  /\ next_uuid = 1
  /\ push_log = <<>>
  /\ steps = 0
  /\ workdir = <<>>
  /\ export = NoExport
  /\ loader = NoLoader
  /\ app_settings = NoSettings
  /\ heap = NoHeap
  /\ batch = NoBatch
  /\ last = [op |-> "init", page |-> 0, id |-> NoId, ret |-> RetNone, pushed |-> FALSE,
             args |-> <<>>, pre |-> LoadedPages(1), preStack |-> <<>>, preIndex |-> 0]

Next ==
  \/ CanStep /\ \E p \in PageIdx, a \in AddInputs : AddRedactionRectangle(p, a[1], a[2], a[3])
  \/ CanStep /\ \E p \in PageIdx : \E id \in CandidateIds(p) : RemoveRedactionRectangle(p, id)
  \/ CanStep /\ \E p \in PageIdx : ClearAllRedactions(p)
  \/ CanStep /\ \E p \in PageIdx : \E id \in CandidateIds(p), d \in Deltas : MoveRedactionRectangle(p, id, d)
  \/ CanStep /\ \E p \in PageIdx : \E id \in CandidateIds(p), sz \in Sizes : ResizeRedactionRectangle(p, id, sz)
  \/ CanStep /\ \E p \in PageIdx : \E id \in CandidateIds(p), c \in Colors : ChangeRedactionColor(p, id, c)
  \/ CanStep /\ \E p \in PageIdx : UndoLastRedaction(p)
  \/ CanStep /\ \E p \in PageIdx \cup {NumPages}, a \in Angles : RotatePage(p, a)
  \/ CanStep /\ \E p \in PageIdx \cup {NumPages}, c \in CropInputs, raises \in BOOLEAN : CropPage(p, c, raises)
  \/ CanStep /\ LoadDocument
  \/ CanStep /\ \E n \in PageIdx : ShowPage(n)
  \/ CanStep /\ NextPage
  \/ CanStep /\ PrevPage
  \/ CanStep /\ \E band \in DrawRects : Draw(band)
  \/ CanStep /\ \E i \in 1 .. Len(scene), pos \in Corners, d \in DragDeltas : HandleDrag(i, pos, d)
  \/ CanStep /\ \E i \in 1 .. Len(scene), d \in Deltas : BodyDrag(i, d)
  \/ CanStep /\ \E sel \in SUBSET (1 .. Len(scene)) : DeleteSelectedMarker(sel)
  \/ CanStep /\ DeleteAll
  \/ CanStep /\ \E c \in Colors, sel \in SUBSET (1 .. Len(scene)) : ChangeMarkerColor(c, sel)
  \/ CanStep /\ \E a \in Angles : RotateCurrent(a)
  \/ CanStep /\ \E c \in CropInputs, raises \in BOOLEAN : FinishCrop(c, raises)
  \/ CanStep /\ Undo
  \/ CanStep /\ \E p \in PageIdx \cup {NumPages} : PushUndoState(p)

Spec == Init /\ [][Next]_vars

\* the undo stack under pushes alone, for any configured history length
InitDepth ==
  /\ pages = LoadedPages(1)
  /\ next_image = NumPages + 1
  /\ current_page_index = 0
  /\ undo_stack = <<>>
  /\ history_length \in HistoryLengths
  /\ fill_color = "black"
  /\ scene = <<>>
  /\ next_uuid = 1
  /\ push_log = <<>>
  /\ steps = 0
  /\ workdir = <<>>
  /\ export = NoExport
  /\ loader = NoLoader
  /\ app_settings = NoSettings
  /\ heap = NoHeap
  /\ batch = NoBatch
  /\ last = [op |-> "init", page |-> 0, id |-> NoId, ret |-> RetNone, pushed |-> FALSE,
             args |-> <<>>, pre |-> LoadedPages(1), preStack |-> <<>>, preIndex |-> 0]

NextDepth ==
  \/ Len(push_log) < MaxPushes /\ PushUndoState(current_page_index)
  \/ next_uuid <= MaxDraws /\ \E band \in DrawRects : Draw(band)

SpecDepth == InitDepth /\ [][NextDepth]_vars

\* the redaction service alone, on the pages of a loaded document
CanEdit == steps < MaxEngineSteps

NextEngine ==
  \/ CanEdit /\ \E p \in PageIdx, a \in AddInputs : AddRedactionRectangle(p, a[1], a[2], a[3])
  \/ CanEdit /\ \E p \in PageIdx : \E id \in CandidateIds(p) : RemoveRedactionRectangle(p, id)
  \/ CanEdit /\ \E p \in PageIdx : ClearAllRedactions(p)
  \/ CanEdit /\ \E p \in PageIdx : \E id \in CandidateIds(p), d \in Deltas : MoveRedactionRectangle(p, id, d)
  \/ CanEdit /\ \E p \in PageIdx : \E id \in CandidateIds(p), sz \in Sizes : ResizeRedactionRectangle(p, id, sz)
  \/ CanEdit /\ \E p \in PageIdx : \E id \in CandidateIds(p), c \in Colors : ChangeRedactionColor(p, id, c)
  \/ CanEdit /\ \E p \in PageIdx : UndoLastRedaction(p)

SpecEngine == Init /\ [][NextEngine]_vars

\* a DocumentEntity built and navigated through its own methods, with the
\* redaction service and crop_page called on its pages

InitDocument ==
  /\ pages = NoPages
  /\ next_image = 1
  /\ current_page_index = 0
  /\ undo_stack = <<>>
  /\ history_length = DefaultHistoryLength
  /\ fill_color = "black"
  /\ scene = <<>>
  /\ next_uuid = 1
  /\ push_log = <<>>
  /\ steps = 0
  /\ workdir = <<>>
  /\ export = NoExport
  /\ loader = NoLoader
  /\ app_settings = NoSettings
  /\ heap = NoHeap
  /\ batch = NoBatch
  /\ last = [op |-> "init", page |-> 0, id |-> NoId, ret |-> RetNone, pushed |-> FALSE,
             args |-> <<>>, pre |-> NoPages, preStack |-> <<>>, preIndex |-> 0]

CanDocStep == steps < MaxDocSteps
DocIdx == -1 .. MaxDocPages

NextDocument ==
  \/ CanDocStep /\ page_count(pages) < MaxDocPages /\ \E with_image \in BOOLEAN : AddPage(with_image)
  \/ CanDocStep /\ \E i \in DocIdx : RemovePage(i)
  \/ CanDocStep /\ \E i \in DocIdx : SetCurrentPage(i)
  \/ CanDocStep /\ DocNextPage
  \/ CanDocStep /\ DocPreviousPage
  \/ CanDocStep /\ \E p \in DOMAIN pages, a \in AddInputs : AddRedactionRectangle(p, a[1], a[2], a[3])
  \/ CanDocStep /\ \E p \in DocIdx, c \in CropInputs, raises \in BOOLEAN : CropPage(p, c, raises)

SpecDocument == InitDocument /\ [][NextDocument]_vars

\* the navigation of DocumentManagementService on a document built page by page
NextNavigate ==
  \/ CanDocStep /\ page_count(pages) < MaxDocPages /\ \E with_image \in BOOLEAN : AddPage(with_image)
  \/ CanDocStep /\ \E i \in DocIdx : NavigateToPage(i)
  \/ CanDocStep /\ NavigateNextPage
  \/ CanDocStep /\ NavigatePreviousPage

SpecNavigate == InitDocument /\ [][NextNavigate]_vars

\* work files saved and loaded for a document that is being edited, under
\* any legal history length
InitWork ==
  /\ pages = LoadedPages(1)
  /\ next_image = NumPages + 1
  /\ current_page_index = 0
  /\ undo_stack = <<>>
  /\ history_length \in WorkHistoryLengths
  /\ fill_color = "black"
  /\ scene = <<>>
  /\ next_uuid = 1
  /\ push_log = <<>>
  /\ steps = 0
  /\ workdir = <<>>
  /\ export = NoExport
  /\ loader = NoLoader
  /\ app_settings = NoSettings
  /\ heap = NoHeap
  /\ batch = NoBatch
  /\ last = [op |-> "init", page |-> 0, id |-> NoId, ret |-> RetNone, pushed |-> FALSE,
             args |-> <<>>, pre |-> LoadedPages(1), preStack |-> <<>>, preIndex |-> 0]

CanWorkStep == steps < MaxWorkSteps

NextWork ==
  \/ CanWorkStep /\ next_uuid <= MaxWorkRects
       /\ \E p \in PageIdx, a \in AddInputs : AddRedactionRectangle(p, a[1], a[2], a[3])
  \/ CanWorkStep /\ \E p \in PageIdx : ClearAllRedactions(p)
  \/ CanWorkStep /\ \E f \in WorkPaths, fails \in BOOLEAN : SaveWorkFile(f, fails)
  \/ CanWorkStep /\ \E f \in WorkPaths : LoadWorkFile(f)

SpecWork == InitWork /\ [][NextWork]_vars

\* an export of a document built page by page (pages with and without an
\* image) and redacted; the export dialog is window-modal, so the document
\* is edited only before the export starts
CanExportStep == steps < MaxExportSteps /\ export.pc = "idle"

NextExport ==
  \/ CanExportStep /\ page_count(pages) < MaxDocPages /\ \E with_image \in BOOLEAN : AddPage(with_image)
  \/ CanExportStep /\ \E p \in DOMAIN pages, a \in AddInputs : AddRedactionRectangle(p, a[1], a[2], a[3])
  \/ \E f \in ExportPaths : StartExport(f)
  \/ \E tool_ok \in BOOLEAN : ExportPage(tool_ok)
  \/ ExportCancelled
  \/ \E outcome \in FinalizeOutcomes : ExportFinalize(outcome)
  \/ Cancel

SpecExport == InitDocument /\ [][NextExport]_vars

\* the export of a loaded document of any number of pages up to
\* MaxProgressPages, of which at most MaxProgressErrors fail
ProgressDocument(n) ==
  [p \in 0 .. (n - 1) |-> [image |-> [id |-> p + 1, size |-> ImageSize0], rectangles |-> <<>>]]

InitProgress ==
  \E n \in 1 .. MaxProgressPages :
    /\ pages = ProgressDocument(n)
    /\ next_image = n + 1
    /\ current_page_index = 0
    /\ undo_stack = <<>>
    /\ history_length = DefaultHistoryLength
    /\ fill_color = "black"
    /\ scene = <<>>
    /\ next_uuid = 1
    /\ push_log = <<>>
    /\ steps = 0
    /\ workdir = <<>>
    /\ export = NoExport
    /\ loader = NoLoader
    /\ app_settings = NoSettings
    /\ heap = NoHeap
    /\ batch = NoBatch
  /\ loader = NoLoader
  /\ app_settings = NoSettings
  /\ heap = NoHeap
  /\ batch = NoBatch
    /\ last = [op |-> "init", page |-> 0, id |-> NoId, ret |-> RetNone, pushed |-> FALSE,
               args |-> <<>>, pre |-> ProgressDocument(n), preStack |-> <<>>, preIndex |-> 0]

NextProgress ==
  \/ \E f \in ExportPaths : StartExport(f)
  \/ \E tool_ok \in BOOLEAN :
       /\ export.pc = "loop"
       /\ tool_ok \/ Len(export.errors) < MaxProgressErrors
       /\ ExportPage(tool_ok)
  \/ ExportCancelled
  \/ \E outcome \in FinalizeOutcomes : ExportFinalize(outcome)
  \/ Cancel

SpecProgress == InitProgress /\ [][NextProgress]_vars

\* a load started over a document that has been edited; the load dialog is
\* window-modal, so the document is edited only before the load starts
CanLoadStep == steps < MaxLoadSteps /\ loader.pc = "idle"

NextLoad ==
  \/ CanLoadStep /\ \E p \in PageIdx, a \in AddInputs : AddRedactionRectangle(p, a[1], a[2], a[3])
  \/ CanLoadStep /\ \E p \in PageIdx, a \in Angles : RotatePage(p, a)
  \/ \E total \in 0 .. MaxLoadPages : StartLoad(total)
  \/ \E raises \in BOOLEAN : RasterizePage(raises)
  \/ RasterizeDone
  \/ ThumbnailPage
  \/ LoadComplete
  \/ CancelLoad

SpecLoad == Init /\ [][NextLoad]_vars

\* the document management service saving and exporting the current
\* document, with and without rectangles, the write failing or not
CanPersistStep == steps < MaxPersistSteps

NextPersist ==
  \/ CanPersistStep /\ next_uuid <= MaxWorkRects
       /\ \E p \in PageIdx, a \in AddInputs : AddRedactionRectangle(p, a[1], a[2], a[3])
  \/ CanPersistStep /\ NextPage
  \/ CanPersistStep /\ \E f \in WorkPaths, fails \in BOOLEAN : ServiceSaveDocument(f, fails)
  \/ CanPersistStep /\ \E f \in WorkPaths : ServiceExportDocument(f)

SpecPersist == Init /\ [][NextPersist]_vars

\* rotations and crops of pages of a small and of a large raster, with
\* regions inside, partly outside and wholly outside the image
CropImageSizes == {ImageSize0, <<1500, 1500>>}
CropRequests == {<<0, 0, 1000, 1414>>, <<0, 0, 1414, 1000>>, <<0, 0, 1050, 1414>>,
                 <<-4, 0, 8, 7>>, <<2, 3, 20, 20>>, <<4, 20, 3, 3>>, <<0, 0, 10, 8>>}
CropDocument(size) ==
  [p \in PageIdx |-> [image |-> [id |-> p + 1, size |-> size], rectangles |-> <<>>]]

InitCrop ==
  \E size \in CropImageSizes :
    /\ pages = CropDocument(size)
    /\ next_image = NumPages + 1
    /\ current_page_index = 0
    /\ undo_stack = <<>>
    /\ history_length = DefaultHistoryLength
    /\ fill_color = "black"
    /\ scene = <<>>
    /\ next_uuid = 1
    /\ push_log = <<>>
    /\ steps = 0
    /\ workdir = <<>>
    /\ export = NoExport
    /\ loader = NoLoader
    /\ app_settings = NoSettings
    /\ heap = NoHeap
    /\ batch = NoBatch
    /\ last = [op |-> "init", page |-> 0, id |-> NoId, ret |-> RetNone, pushed |-> FALSE,
               args |-> <<>>, pre |-> CropDocument(size), preStack |-> <<>>, preIndex |-> 0]

CanCropStep == steps < MaxCropSteps

NextCrop ==
  \/ CanCropStep /\ \E p \in PageIdx, a \in AddInputs : AddRedactionRectangle(p, a[1], a[2], a[3])
  \/ CanCropStep /\ \E p \in PageIdx \cup {NumPages}, a \in Angles : RotatePage(p, a)
  \/ CanCropStep /\ \E p \in PageIdx \cup {NumPages}, c \in CropRequests, raises \in BOOLEAN :
                       CropPage(p, c, raises)

SpecCrop == InitCrop /\ [][NextCrop]_vars

\* the application started over any settings.json, the color and the
\* quality changed from the toolbar, the window closed and opened again
StoredRecords ==
  {[fill_color |-> c, output_quality |-> q, history_length |-> h, zoom_level |-> z] :
     c \in {"red", "purple"}, q \in {"printer", "ultra"}, h \in {5, -1}, z \in {150, 500}}
SettingsFiles == {AbsentFile, CorruptFile} \cup {RecordFile(d) : d \in StoredRecords}

InitSettings ==
  /\ pages = LoadedPages(1)
  /\ next_image = NumPages + 1
  /\ current_page_index = 0
  /\ undo_stack = <<>>
  /\ history_length = DefaultHistoryLength
  /\ fill_color = "black"
  /\ scene = <<>>
  /\ next_uuid = 1
  /\ push_log = <<>>
  /\ steps = 0
  /\ workdir = <<>>
  /\ export = NoExport
  /\ loader = NoLoader
  /\ app_settings \in {[pc |-> "unread", file |-> f] : f \in SettingsFiles}
  /\ heap = NoHeap
  /\ batch = NoBatch
  /\ last = [op |-> "init", page |-> 0, id |-> NoId, ret |-> RetNone, pushed |-> FALSE,
             args |-> <<>>, pre |-> LoadedPages(1), preStack |-> <<>>, preIndex |-> 0]

CanSettingsStep == steps < MaxSettingsSteps

NextSettings ==
  \/ CanSettingsStep /\ LoadSettings
  \/ CanSettingsStep /\ \E quality \in QualityNames : ChangeQuality(quality)
  \/ CanSettingsStep /\ app_settings.pc = "loaded"
       /\ \E name \in DOMAIN color_map : ChangeMarkerColor(color_map[name], {})
  \/ CanSettingsStep /\ \E fails \in BOOLEAN : CloseEvent(fails)

SpecSettings == InitSettings /\ [][NextSettings]_vars

\* the editor's operations on a loaded document, object by object
LoadedHeap ==
  [pc |-> "tracked",
   rect |-> <<>>,
   list |-> [i \in 1 .. NumPages |-> <<>>],
   image |-> [i \in 1 .. NumPages |-> LoadedPages(1)[i - 1].image],
   pages |-> [p \in PageIdx |-> [image |-> p + 1, rectangles |-> p + 1]],
   stack |-> <<>>,
   taken |-> <<>>]

WrittenItems(p) ==
  {[entity_id |-> id, pos |-> <<3, 4>>, rect |-> <<0, 0, 20, 10>>, brush |-> "black"] :
     id \in IdsOn(p)}

InitAlias ==
  /\ pages = LoadedPages(1)
  /\ next_image = NumPages + 1
  /\ current_page_index = 0
  /\ undo_stack = <<>>
  /\ history_length = DefaultHistoryLength
  /\ fill_color = "black"
  /\ scene = <<>>
  /\ next_uuid = 1
  /\ push_log = <<>>
  /\ steps = 0
  /\ workdir = <<>>
  /\ export = NoExport
  /\ loader = NoLoader
  /\ app_settings = NoSettings
  /\ heap = LoadedHeap
  /\ batch = NoBatch
  /\ last = [op |-> "init", page |-> 0, id |-> NoId, ret |-> RetNone, pushed |-> FALSE,
             args |-> <<>>, pre |-> LoadedPages(1), preStack |-> <<>>, preIndex |-> 0]

CanAliasStep == steps < MaxAliasSteps

NextAlias ==
  \/ CanAliasStep /\ \E p \in PageIdx : RefPushUndoState(p)
  \/ CanAliasStep /\ RefUndo
  \/ CanAliasStep /\ RefAddRectangle(0, <<10, 20>>, <<50, 10>>, "black")
  \/ CanAliasStep /\ \E id \in IdsOn(0) : RefRemoveRectangle(0, id)
  \/ CanAliasStep /\ \E id \in IdsOn(0) : RefMoveRectangle(0, id, <<5, 5>>)
  \/ CanAliasStep /\ \E item \in WrittenItems(current_page_index) : RefWriteGeometry(item)
  \/ CanAliasStep /\ \E id \in IdsOn(current_page_index) : RefWriteColor(id, "red")
  \/ CanAliasStep /\ RefRotatePage(0, 90)
  \/ CanAliasStep /\ \E raises \in BOOLEAN : RefCropPage(0, <<0, 0, 5, 7>>, raises)

SpecAlias == InitAlias /\ [][NextAlias]_vars

\* the main window's interactive operations alone, on the displayed page
CanSceneStep == steps < MaxSceneSteps

NextScene ==
  \/ CanSceneStep /\ \E n \in PageIdx : ShowPage(n)
  \/ CanSceneStep /\ \E band \in DrawRects : Draw(band)
  \/ CanSceneStep /\ \E i \in 1 .. Len(scene), pos \in {"top_left", "bottom_right"} :
       HandleDrag(i, pos, <<5, 5>>)
  \/ CanSceneStep /\ \E i \in 1 .. Len(scene) : BodyDrag(i, <<5, 5>>)
  \/ CanSceneStep /\ \E sel \in SUBSET (1 .. Len(scene)) : DeleteSelectedMarker(sel)
  \/ CanSceneStep /\ DeleteAll
  \/ CanSceneStep /\ \E sel \in SUBSET (1 .. Len(scene)) : ChangeMarkerColor("red", sel)
  \/ CanSceneStep /\ RotateCurrent(90)
  \/ CanSceneStep /\ \E raises \in BOOLEAN : FinishCrop(<<0, 0, 5, 7>>, raises)
  \/ CanSceneStep /\ Undo

SpecScene == Init /\ [][NextScene]_vars

\* the redaction service on one page, with snapshots taken and restored
CanIdStep == steps < MaxIdSteps

NextIds ==
  \/ CanIdStep /\ AddRedactionRectangle(0, <<10, 20>>, <<50, 10>>, "black")
  \/ CanIdStep /\ \E id \in CandidateIds(0) : RemoveRedactionRectangle(0, id)
  \/ CanIdStep /\ ClearAllRedactions(0)
  \/ CanIdStep /\ \E id \in CandidateIds(0) : MoveRedactionRectangle(0, id, <<5, 5>>)
  \/ CanIdStep /\ \E id \in CandidateIds(0) : ResizeRedactionRectangle(0, id, <<20, 20>>)
  \/ CanIdStep /\ \E id \in CandidateIds(0) : ChangeRedactionColor(0, id, "red")
  \/ CanIdStep /\ UndoLastRedaction(0)
  \/ CanIdStep /\ PushUndoState(0)
  \/ CanIdStep /\ Undo

SpecIds == Init /\ [][NextIds]_vars

\* a batch operation on a document the redaction service has put markers on
NextBatch ==
  \/ steps < MaxBatchSteps /\ batch.pc = "idle"
       /\ \E p \in PageIdx, a \in AddInputs : AddRedactionRectangle(p, a[1], a[2], a[3])
  \/ \E f \in UpdateFuncs : StartBatch(f)
  \/ CancelBatch
  \/ ExecuteBatch

SpecBatch == Init /\ [][NextBatch]_vars

\* ------------------------------------------------------------------ claims
PreRects == last.pre[last.page].rectangles
NowRects == pages[last.page].rectangles
OtherPagesUnchanged(p) == \A q \in PageIdx \ {p} : pages[q] = last.pre[q]
Normalized(r) ==
  /\ r.start_point[1] <= r.end_point[1]
  /\ r.start_point[2] <= r.end_point[2]

\* s is a run of consecutive entries of t
IsWindow(s, t) ==
  \E a \in 1 .. (Len(t) + 1) :
    /\ a + Len(s) - 1 <= Len(t)
    /\ s = SubSeq(t, a, a + Len(s) - 1)

LastN(seq, n) ==
  IF Len(seq) <= n THEN seq ELSE SubSeq(seq, Len(seq) - n + 1, Len(seq))

\* C1: undo() on a non-empty stack pops the top snapshot, sets that page's image
\* and rectangle list to the snapshot's values, returns the page index and
\* leaves every other page as it was; the top snapshot of the stack after an
\* operation that pushed holds the page as it was when the push was called,
\* and no operation alters a snapshot that stays on the stack.
C1_UndoRestoresSnapshot ==
  /\ (last.op = "undo" /\ Len(last.preStack) > 0) =>
       LET state == Top(last.preStack)
       IN /\ undo_stack = Pop(last.preStack)
          /\ pages[state.page_index].image = state.image
          /\ pages[state.page_index].rectangles = state.rectangles
          /\ last.ret = RetInt(state.page_index)
          /\ OtherPagesUnchanged(state.page_index)
  /\ last.pushed =>
       /\ Len(undo_stack) > 0
       /\ Top(undo_stack).page_index = last.page
       /\ Top(undo_stack).image = last.pre[last.page].image
       /\ Top(undo_stack).rectangles = last.pre[last.page].rectangles
  /\ last.op # "load" =>
       IsWindow(undo_stack,
                last.preStack \o (IF last.page \in PageIdx
                                  THEN <<[page_index |-> last.page,
                                          image |-> last.pre[last.page].image,
                                          rectangles |-> last.pre[last.page].rectangles]>>
                                  ELSE <<>>))

\* an undo that pops the later of two snapshots and changes the page back
C1_Witness ==
  /\ last.op = "undo"
  /\ Len(last.preStack) > 1
  /\ pages[last.page] # last.pre[last.page]
  /\ pages[last.page].image # last.pre[last.page].image

DestructiveOps ==
  {"draw", "move_marker", "resize_marker", "rotate", "crop", "delete_all", "delete_selected"}

C3_PushBeforeDestructive ==
  (last.op \in DestructiveOps /\ pages # last.pre) =>
    /\ Len(undo_stack) > 0
    /\ Top(undo_stack) = Snapshot(last.pre, last.page)
    /\ undo(undo_stack, pages).pages = last.pre

\* C4: after a rotate_page or crop_page call that returned true the affected
\* page has no rectangles, and every other page is unchanged.
C4_TransformClearsRectangles ==
  (last.op \in {"rotate", "crop"} /\ last.ret = RetBool(TRUE)) =>
    /\ pages[last.page].rectangles = <<>>
    /\ OtherPagesUnchanged(last.page)

C4_Witness ==
  /\ last.op = "rotate"
  /\ last.ret = RetBool(TRUE)
  /\ Len(PreRects) > 0
  /\ \E q \in PageIdx \ {last.page} : Len(pages[q].rectangles) > 0

\* C5: move, resize and recolor of a rectangle that is on the page replace it
\* at the same position with a rectangle of the same id; the number of
\* rectangles, the order of ids and every other rectangle are unchanged, and
\* the call returns true.
EngineReplaceOps == {"move", "resize", "recolor"}

C5_ReplaceKeepsPosition ==
  (last.op \in EngineReplaceOps /\ HasRectangle(PreRects, last.id)) =>
    /\ last.ret = RetBool(TRUE)
    /\ Len(NowRects) = Len(PreRects)
    /\ \A i \in 1 .. Len(PreRects) :
         /\ NowRects[i].id = PreRects[i].id
         /\ PreRects[i].id # last.id => NowRects[i] = PreRects[i]

\* C6: move, resize and recolor with an id that is not on the page return
\* false and leave the page's rectangle sequence, and all pages, as they were.
C6_NotFoundNoMutation ==
  (last.op \in EngineReplaceOps /\ ~HasRectangle(PreRects, last.id)) =>
    /\ last.ret = RetBool(FALSE)
    /\ pages = last.pre

\* a move with an id that is on another page, on a page that has rectangles
C6_Witness ==
  /\ last.op = "move"
  /\ Len(PreRects) > 0
  /\ ~HasRectangle(PreRects, last.id)
  /\ \E q \in PageIdx : HasRectangle(last.pre[q].rectangles, last.id)

\* C7: add appends exactly one normalized rectangle at the end of the page's
\* sequence, with an id that no rectangle of the page had, and returns that
\* rectangle; zero-area rectangles are accepted.
C7_AddReturnsRectangle ==
  last.op = "add" =>
    /\ Len(NowRects) = Len(PreRects) + 1
    /\ SubSeq(NowRects, 1, Len(PreRects)) = PreRects
    /\ Normalized(NowRects[Len(NowRects)])
    /\ ~HasRectangle(PreRects, NowRects[Len(NowRects)].id)
    /\ last.ret = RetRect(NowRects[Len(NowRects)])

\* C8: remove(page, id) returns true exactly when a rectangle with that id
\* was on the page; then exactly that entry is gone and the others keep
\* their order; otherwise the page is unchanged.
C8_RemoveExactlyOne ==
  last.op = "remove" =>
    /\ last.ret = RetBool(\E i \in 1 .. Len(PreRects) : PreRects[i].id = last.id)
    /\ (\E i \in 1 .. Len(PreRects) : PreRects[i].id = last.id) =>
         \E i \in 1 .. Len(PreRects) :
           /\ PreRects[i].id = last.id
           /\ Len(NowRects) = Len(PreRects) - 1
           /\ \A j \in 1 .. Len(NowRects) :
                NowRects[j] = IF j < i THEN PreRects[j] ELSE PreRects[j + 1]
           /\ \A j \in 1 .. Len(NowRects) : NowRects[j].id # last.id
    /\ (\A i \in 1 .. Len(PreRects) : PreRects[i].id # last.id) => NowRects = PreRects
    /\ OtherPagesUnchanged(last.page)

\* removing the first of several rectangles
C8_Witness ==
  /\ last.op = "remove"
  /\ last.ret = RetBool(TRUE)
  /\ Len(PreRects) >= 2
  /\ PreRects[1].id = last.id

\* C9: undoLastAdd removes the rectangle of the page that was added last
\* (ids are issued in add order, so the one with the greatest id), leaves
\* the others unchanged and returns true; on an empty page it returns false
\* and changes nothing.
C9_UndoLastAddRemovesNewest ==
  last.op = "undo_last" =>
    IF PreRects = <<>>
    THEN last.ret = RetBool(FALSE) /\ pages = last.pre
    ELSE /\ last.ret = RetBool(TRUE)
         /\ \E i \in 1 .. Len(PreRects) :
              /\ \A j \in 1 .. Len(PreRects) : PreRects[j].id <= PreRects[i].id
              /\ Len(NowRects) = Len(PreRects) - 1
              /\ \A j \in 1 .. Len(NowRects) :
                   NowRects[j] = IF j < i THEN PreRects[j] ELSE PreRects[j + 1]

\* C10: every rectangle stored on any page has start.x <= end.x and
\* start.y <= end.y.
C10_RectanglesNormalized ==
  \A p \in PageIdx : \A i \in 1 .. Len(pages[p].rectangles) :
    Normalized(pages[p].rectangles[i])

\* a marker resized with a handle dragged across the opposite corner, synced
\* into a rectangle that was built from points given in reverse order
C10_Witness ==
  /\ last.op = "resize_marker"
  /\ pages # last.pre
  /\ \E i \in 1 .. Len(NowRects) :
       /\ NowRects[i].id = last.id
       /\ NowRects[i].end_point[1] - NowRects[i].start_point[1] = MinHandleSize

\* C11: for every rectangle and every pair (w, h), resize(w, h) yields a
\* rectangle with the same id, the same start point as before and
\* end = start + (w, h).
C11_ResizeKeepsStart ==
  (last.op = "resize" /\ HasRectangle(PreRects, last.id)) =>
    LET old == get_rectangle(PreRects, last.id)
        new == get_rectangle(NowRects, last.id)
    IN /\ HasRectangle(NowRects, last.id)
       /\ new.start_point = old.start_point
       /\ new.end_point = <<old.start_point[1] + last.args[1],
                            old.start_point[2] + last.args[2]>>

\* C12: in every state reachable by add_page, remove_page, next_page,
\* previous_page and set_current_page, current_page_index is in
\* 0 .. page_count - 1 (0 when there are no pages); next_page at the last
\* page, previous_page at the first page and set_current_page with an index
\* out of range return false and leave the index unchanged.
C12_CurrentPageInRange ==
  /\ IF page_count(pages) = 0 THEN current_page_index = 0
     ELSE current_page_index \in 0 .. (page_count(pages) - 1)
  /\ (last.op = "doc_next_page" /\ last.preIndex >= page_count(last.pre) - 1) =>
       last.ret = RetBool(FALSE) /\ current_page_index = last.preIndex
  /\ (last.op = "doc_previous_page" /\ last.preIndex = 0) =>
       last.ret = RetBool(FALSE) /\ current_page_index = last.preIndex
  /\ (last.op = "set_current_page" /\ last.page \notin 0 .. (page_count(last.pre) - 1)) =>
       last.ret = RetBool(FALSE) /\ current_page_index = last.preIndex

\* the last page is removed while it is the current one
C12_Witness ==
  /\ last.op = "remove_page"
  /\ last.ret = RetBool(TRUE)
  /\ last.preIndex = page_count(last.pre) - 1
  /\ last.preIndex > 0
  /\ current_page_index = last.preIndex - 1

\* C16: crop_page returns false and leaves the page's image and rectangle
\* list (and every other page) unchanged whenever the crop rectangle has
\* non-positive width or height after clamping, or the crop itself fails,
\* or the page index is invalid, or the page has no image.
CropRegion == last.args[1]
CropRaises == last.args[2]
CropImage == last.pre[last.page].image

CropCannotSucceed ==
  \/ last.page \notin DOMAIN last.pre
  \/ CropImage = NoImage
  \/ CropRegion[3] <= 0
  \/ CropRegion[4] <= 0
  \/ CropImage.size[1] - (IF CropRegion[1] < 0 THEN 0 ELSE CropRegion[1]) <= 0
  \/ CropImage.size[2] - (IF CropRegion[2] < 0 THEN 0 ELSE CropRegion[2]) <= 0
  \/ CropRaises

C16_FailedCropLeavesPage ==
  (last.op = "crop" /\ CropCannotSucceed) =>
    /\ last.ret = RetBool(FALSE)
    /\ pages = last.pre

\* a crop region that lies below the image, on a page that has rectangles
C16_Witness ==
  /\ last.op = "crop"
  /\ last.page \in DOMAIN last.pre
  /\ CropImage # NoImage
  /\ ~CropRaises
  /\ CropImage.size[2] - CropRegion[2] <= 0
  /\ Len(last.pre[last.page].rectangles) > 0
  /\ last.ret = RetBool(FALSE)

\* C13: navigate_to_page(document, i) makes i the current page and returns
\* True when i is a valid page index, and returns a failure value and leaves
\* current_page_index unchanged when i is out of range.
C13_NavigateToPageChecksRange ==
  last.op = "navigate_to_page" =>
    IF last.page \in 0 .. (page_count(last.pre) - 1)
    THEN current_page_index = last.page /\ last.ret = RetBool(TRUE)
    ELSE current_page_index = last.preIndex /\ last.ret # RetBool(TRUE)

\* C14: undo() called when the undo stack is empty returns none and changes
\* no page's image or rectangle list, nor the stack.
C14_UndoOnEmptyStack ==
  (last.op = "undo" /\ last.preStack = <<>>) =>
    /\ last.ret = RetNone
    /\ pages = last.pre
    /\ undo_stack = <<>>

\* undo with nothing pushed, on a document whose first page has a rectangle
C14_Witness ==
  /\ last.op = "undo"
  /\ last.preStack = <<>>
  /\ Len(last.pre[0].rectangles) > 0

\* C15: after every load_document call the current document is exactly the
\* value the call returned: it holds nothing of the previous document (no
\* rectangle, no image), the undo stack is empty, and an undo right after
\* the load restores nothing.
C15_LoadReplacesDocument ==
  last.op = "load" =>
    /\ last.ret = RetDoc(pages)
    /\ \A p \in DOMAIN pages :
         /\ pages[p].rectangles = <<>>
         /\ \A q \in DOMAIN last.pre : pages[p].image # last.pre[q].image
    /\ undo_stack = <<>>
    /\ undo(undo_stack, pages).ret = RetNone
    /\ undo(undo_stack, pages).pages = pages

\* a load over a document that had a rectangle and a snapshot on the stack
C15_Witness ==
  /\ last.op = "load"
  /\ Len(last.preStack) > 0
  /\ \E q \in DOMAIN last.pre : Len(last.pre[q].rectangles) > 0

SavedName == encode_filepath(last.args.file_path)
HasRectangles(pgs) == \E p \in DOMAIN pgs : Len(pgs[p].rectangles) > 0
FilesNamed(dir, name) == {i \in 1 .. Len(dir) : dir[i].name = name}

C19_RetentionBound ==
  (last.op = "save_work_file" /\ last.ret = RetBool(TRUE) /\ HasRectangles(pages)) =>
    /\ Len(workdir) <= history_length
    /\ Len(workdir) > 0 =>
         LET written == write_file(last.args.dir, SavedName, workdir[Len(workdir)].data)
         IN /\ Len(workdir) <= Len(written)
            /\ workdir = SubSeq(written, Len(written) - Len(workdir) + 1, Len(written))

\* the PDFs of the pages that process_page handled, in ascending page order
ProcessedPages(pgs, results) ==
  LET idx == [k \in 1 .. Len(results) |-> k - 1]
      okidx == SelectSeq(idx, LAMBDA i : results[i + 1])
  IN [k \in 1 .. Len(okidx) |->
        [image |-> pgs[okidx[k]].image, rectangles |-> pgs[okidx[k]].rectangles]]

FailedPages(results) ==
  LET idx == [k \in 1 .. Len(results) |-> k]
  IN [k \in 1 .. Len(SelectSeq(idx, LAMBDA n : ~results[n])) |->
        PageError(SelectSeq(idx, LAMBDA n : ~results[n])[k])]

ExportNotCancelled == export.pc = "done" /\ export.finished.message # "cancelled"

C21_ProgressMonotonic ==
  export.pc # "idle" =>
    \A k \in 1 .. (Len(export.progress) - 1) : export.progress[k] <= export.progress[k + 1]

\* C22: once cancel() has been called on a running export worker, the run
\* ends with the cancelled outcome: it writes no output file and does not
\* report success, wherever in the page loop the cancellation arrives.
C22_CancelledExportWritesNothing ==
  (export.pc = "done" /\ export.cancelled) =>
    /\ export.finished.message = "cancelled"
    /\ ~export.finished.success
    /\ export.output = RetNone

LoadRunning == loader.pc \in {"rasterize", "thumbnails"}
LoadEndedCancelled == loader.pc = "done" /\ loader.cancelled

\* C23: once cancel() has been called on a running load worker, the run ends
\* with finished(None): it emits no error notification and delivers no
\* document, whether the cancellation arrives during rasterization or
\* during thumbnail generation.
C23_CancelledLoadReportsNoResult ==
  LoadEndedCancelled =>
    /\ loader.errors = <<>>
    /\ loader.finished = Some(RetNone)

\* C24: while a load worker is running, and after a load that ended
\* cancelled, get_current_document() returns the document that was current
\* when the load started and the undo stack is the one of that moment.
C24_LoadVisibleOnlyAtCompletion ==
  (LoadRunning \/ LoadEndedCancelled) =>
    /\ get_current_document(loader, pages) = RetDoc(loader.previous.pages)
    /\ undo_stack = loader.previous.stack

\* C25: save_document and export_document of the document management
\* service return the repository's outcome as a boolean, True on success and
\* False on failure, and leave the pages, their rectangles and the current
\* page as they were.
C25_PersistenceReportsBoolean ==
  last.op \in {"save_document", "export_document"} =>
    /\ last.ret = RetBool(last.args.repository)
    /\ pages = last.pre
    /\ current_page_index = last.preIndex

\* the region a successful crop cut out of the image it started from
CroppedBox ==
  CropBox(CropImage.size, CropRegion[1], CropRegion[2], CropRegion[3], CropRegion[4])
CropSucceeded == last.op = "crop" /\ last.ret = RetBool(TRUE)
\* | w/h - num/den | < 5% of num/den, in integers
WithinFivePercent(w, h, num, den) == 100 * Abs(w * den - num * h) < 5 * num * h

\* C26: after a successful crop to a clamped width w and height h the page
\* image is 2480x3508 when w/h is within 5% of 2480/3508, 3508x2480 when
\* w/h is within 5% of 3508/2480, and w x h otherwise; a 1000x1414 crop
\* becomes 2480x3508.
C26_CropUpscalesToA4 ==
  CropSucceeded =>
    LET w == CroppedBox[3]
        h == CroppedBox[4]
        size == pages[last.page].image.size
    IN /\ WithinFivePercent(w, h, 2480, 3508) => size = <<2480, 3508>>
       /\ (~WithinFivePercent(w, h, 2480, 3508) /\ WithinFivePercent(w, h, 3508, 2480)) =>
            size = <<3508, 2480>>
       /\ (~WithinFivePercent(w, h, 2480, 3508) /\ ~WithinFivePercent(w, h, 3508, 2480)) =>
            size = <<w, h>>
       /\ (w = 1000 /\ h = 1414) => size = <<2480, 3508>>

\* the 1000x1414 crop of a 1500x1500 page
C26_Witness ==
  /\ CropSucceeded
  /\ CroppedBox = <<0, 0, 1000, 1414>>
  /\ pages[last.page].image.size = <<A4Short, A4Long>>

\* C27: for every requested crop rectangle, also with negative x or y or
\* reaching past the image, the region cropped is the requested rectangle
\* clamped to the image: it lies inside the image and inside the requested
\* rectangle.
C27_CropRegionClamped ==
  CropSucceeded =>
    LET b == CroppedBox
        x == CropRegion[1]
        y == CropRegion[2]
    IN /\ pages[last.page].image.size = CropTargetSize(b[3], b[4])
       /\ 0 <= b[1] /\ b[1] + b[3] <= CropImage.size[1]
       /\ 0 <= b[2] /\ b[2] + b[4] <= CropImage.size[2]
       /\ x <= b[1] /\ b[1] + b[3] <= x + CropRegion[3]
       /\ y <= b[2] /\ b[2] + b[4] <= y + CropRegion[4]

\* C29: a rotate_page or crop_page call that returns False leaves the undo
\* stack as it was before the call, the same snapshots in the same order,
\* on every failure path.
C29_FailedTransformKeepsStack ==
  (last.op \in {"rotate", "crop"} /\ last.ret = RetBool(FALSE)) =>
    undo_stack = last.preStack

\* C28: the settings obtained from load_settings pass validate(): when the
\* stored record holds an illegal value in any field the caller receives the
\* default settings; and the settings written at shutdown are valid.
C28_LoadedSettingsValid ==
  /\ last.op = "load_settings" =>
       /\ validate(app_settings.settings)
       /\ (app_settings.file.kind = "record" /\ ~validate(from_dict(app_settings.file.data))) =>
            app_settings.settings = DefaultSettings
  /\ (last.op = "close" /\ last.ret = RetBool(TRUE)) =>
       validate(from_dict(app_settings.file.data))

\* C30: stored snapshots are isolated from the live model: every snapshot on
\* the stack still has the value it had when push_undo_state stored it,
\* whatever was done to the live pages since, and no snapshot shares its
\* rectangle list, a rectangle object or its image with a live page.
LiveListRefs == {heap.pages[p].rectangles : p \in DOMAIN heap.pages}
LiveRectRefs == UNION {RefRange(heap.list[l]) : l \in LiveListRefs}
LiveImageRefs == {heap.pages[p].image : p \in DOMAIN heap.pages} \ {NoRef}

C30_SnapshotsIsolated ==
  heap.pc = "tracked" =>
    \A k \in 1 .. Len(heap.stack) :
      /\ DerefState(heap, heap.stack[k]) = heap.taken[k]
      /\ heap.stack[k].rectangles \notin LiveListRefs
      /\ RefRange(heap.list[heap.stack[k].rectangles]) \cap LiveRectRefs = {}
      /\ heap.stack[k].image \notin LiveImageRefs

\* a rectangle held by the newest snapshot was written in place on the live
\* page afterwards, and the two now differ
C30_Witness ==
  /\ heap.pc = "tracked"
  /\ last.op \in {"write_geometry", "write_color"}
  /\ Len(heap.stack) > 0
  /\ LET state == DerefState(heap, Top(heap.stack))
     IN /\ state.page_index = last.page
        /\ HasRectangle(state.rectangles, last.id)
        /\ HasRectangle(pages[last.page].rectangles, last.id)
        /\ get_rectangle(state.rectangles, last.id) # get_rectangle(pages[last.page].rectangles, last.id)

\* C31: after every interactive operation on the displayed page the marker
\* items of the scene and the current page's rectangles correspond one to one:
\* each rectangle id has exactly one item, with the rectangle's coordinates and
\* color, and every item belongs to a rectangle of the page.
InteractiveOps ==
  {"draw", "move_marker", "resize_marker", "recolor_marker", "delete_selected",
   "delete_all", "undo", "rotate", "crop"}

ItemsOf(id) == {k \in 1 .. Len(scene) : scene[k].entity_id = id}

ItemShows(item, r) ==
  /\ <<item.rect[1] + item.pos[1], item.rect[2] + item.pos[2]>> = r.start_point
  /\ <<item.rect[1] + item.rect[3] + item.pos[1], item.rect[2] + item.rect[4] + item.pos[2]>>
       = r.end_point
  /\ item.brush = r.color

SceneMatchesPage ==
  LET rects == pages[current_page_index].rectangles
  IN /\ \A i \in 1 .. Len(rects) :
          /\ Cardinality(ItemsOf(rects[i].id)) = 1
          /\ \A k \in ItemsOf(rects[i].id) : ItemShows(scene[k], rects[i])
     /\ \A k \in 1 .. Len(scene) : HasRectangle(rects, scene[k].entity_id)

C31_SceneMatchesPage == last.op \in InteractiveOps => SceneMatchesPage

\* C32: in every state reached by the redaction service's operations and by
\* undo restores, no two rectangles of a page have the same id.
C32_IdsUniqueOnPage ==
  \A p \in DOMAIN pages :
    \A i, j \in 1 .. Len(pages[p].rectangles) :
      pages[p].rectangles[i].id = pages[p].rectangles[j].id => i = j

\* an undo has put back a page of two rectangles, one of which had been
\* moved, resized, recolored or removed since the snapshot
C32_Witness ==
  /\ last.op = "undo"
  /\ last.ret = RetInt(0)
  /\ Len(pages[0].rectangles) = 2
  /\ pages[0].rectangles # last.pre[0].rectangles

\* C33: every run of the load worker emits its finished notification, with a
\* document or with none, on the success, cancellation and failure paths
\* alike: a run that has ended has emitted finished.  (Every emission of
\* finished is the last statement of the run, so it is emitted at most once.)
C33_LoadAlwaysFinishes == loader.pc = "done" => loader.finished # RetNone

\* C34: a batch worker honours cooperative cancellation: when cancel() was
\* called before its update function was started, the update function is not
\* applied to the document and the run does not report success.
C34_CancelledBatchNotApplied ==
  (batch.pc = "done" /\ batch.cancelled_at_start) =>
    /\ ~batch.applied
    /\ batch.finished # Some([success |-> TRUE, message |-> "completed"])

====
